---- MODULE Spec2Model ----
(***************************************************************************)
(* A model of the two engines of PlanetarySystemStacker's core:            *)
(*   - RankFrames  (src/src/rank_frames.py): frame quality ranking,        *)
(*     index translation and the sliding-window search find_best_frames;   *)
(*   - StackFrames (src/src/stack_frames.py): blending preparation, the    *)
(*     frame / alignment point stacking loop, remap_rigid and the merge.   *)
(*                                                                         *)
(* Python lists and numpy arrays are sequences; their elements are         *)
(* addressed with 0-based indices through At.  Real numbers (quality       *)
(* scores, blending weights, stacked pixel values) are exact rationals     *)
(* <<n, d>> in lowest terms, so floating-point rounding is abstracted.     *)
(***************************************************************************)
EXTENDS Integers, Sequences, FiniteSets, TLC

\* ------------------------------------------------------------------ bounds
\* Largest number of frames of a generated rank input.
MaxN == 3
\* Largest raw (un-normalised) sharpness value a kernel reports.
MaxRaw == 2
\* Side length, in pixels, of the (square) frames stacked.
ImageSize == 3
\* Largest local shift, in pixels, searched for at an alignment point.
MaxShift == 1

\* ---------------------------------------------------------------- rationals
RECURSIVE GCD(_, _)
GCD(a, b) == IF b = 0 THEN a ELSE GCD(b, a % b)

Abs(x) == IF x < 0 THEN -x ELSE x

\* The rational n/d (d # 0) in lowest terms with a positive denominator.
Rat(n, d) ==
    LET g == GCD(Abs(n), Abs(d))
        s == IF d < 0 THEN -1 ELSE 1
    IN  <<s * (n \div g), s * (d \div g)>>

RInt(n) == <<n, 1>>
RAdd(a, b) ==
    LET g == GCD(a[2], b[2])
    IN  Rat(a[1] * (b[2] \div g) + b[1] * (a[2] \div g), a[2] * (b[2] \div g))
RSub(a, b) == RAdd(a, <<-b[1], b[2]>>)
RMul(a, b) ==
    LET g == GCD(Abs(a[1]), b[2])
        h == GCD(Abs(b[1]), a[2])
    IN  Rat((a[1] \div g) * (b[1] \div h), (a[2] \div h) * (b[2] \div g))
RDiv(a, b) == RMul(a, Rat(b[2], b[1]))
RLess(a, b) == a[1] * b[2] < b[1] * a[2]
RLeq(a, b) == a[1] * b[2] <= b[1] * a[2]
RMin(a, b) == IF RLess(b, a) THEN b ELSE a

\* round(): the integer nearest to n/d (d > 0), ties to the even integer.
RoundHalfEven(n, d) ==
    LET q == n \div d
        r == n % d
    IN  IF 2 * r < d THEN q
        ELSE IF 2 * r > d THEN q + 1
        ELSE IF q % 2 = 0 THEN q ELSE q + 1

\* round(x, 1) of the rational x, as an integer number of tenths.
RoundTenths(x) == RoundHalfEven(10 * x[1], x[2])

\* ------------------------------------------------------------ Python lists
\* list[i] for a 0-based index i.
At(list, i) == list[i + 1]

\* range(lo, hi) as a list.
Range(lo, hi) == [j \in 1..(IF hi > lo THEN hi - lo ELSE 0) |-> lo + j - 1]

\* list[:k]
Take(list, k) == SubSeq(list, 1, IF k < Len(list) THEN k ELSE Len(list))

\* sum() of a list of rationals.
RECURSIVE RSum(_)
RSum(list) == IF list = <<>> THEN RInt(0) ELSE RAdd(Head(list), RSum(Tail(list)))

\* sum() of a list of integers.
RECURSIVE ISum(_)
ISum(list) == IF list = <<>> THEN 0 ELSE Head(list) + ISum(Tail(list))

\* [ranks[i] for i in indices]
Gather(ranks, indices) == [j \in 1..Len(indices) |-> At(ranks, indices[j])]

\* Insert index i into a list sorted by descending key, after every element
\* whose key is >= its own: the order sorted(..., reverse=True) produces,
\* which keeps elements with equal keys in their original order.
RECURSIVE InsertDesc(_, _, _)
InsertDesc(sortedList, i, ranks) ==
    IF sortedList = <<>> THEN <<i>>
    ELSE IF RLess(At(ranks, Head(sortedList)), At(ranks, i))
         THEN <<i>> \o sortedList
         ELSE <<Head(sortedList)>> \o InsertDesc(Tail(sortedList), i, ranks)

\* sorted(indices, key=ranks.__getitem__, reverse=True)
RECURSIVE SortedDesc(_, _)
SortedDesc(indices, ranks) ==
    IF indices = <<>> THEN <<>>
    ELSE InsertDesc(SortedDesc(SubSeq(indices, 1, Len(indices) - 1), ranks),
                    indices[Len(indices)], ranks)

\* list.index(x): the 0-based position of the first occurrence of x.
IndexOf(list, x) == (CHOOSE j \in 1..Len(list) :
                        list[j] = x /\ \A m \in 1..(j - 1) : list[m] # x) - 1

\* Mutant of InverseIndices: the sorted list itself is taken as the rank list.
InverseIndicesAsSorted(sortedList, number) == sortedList

\* [sortedList.index(index) for index in range(number)]
InverseIndices(sortedList, number) ==
    [j \in 1..number |-> IndexOf(sortedList, j - 1)]

\* Mutant of Normalize: the scores are divided by the first frame's score.
NormalizeByFirst(ranks, value) == [j \in 1..Len(ranks) |-> RDiv(ranks[j], ranks[1])]

\* array /= value
Normalize(ranks, value) == [j \in 1..Len(ranks) |-> RDiv(ranks[j], value)]

\* ================================================================ RankFrames
VARIABLES
    \* the frame source and the configuration, as the rank engine reads them
    raw_scores,                        \* what the selected kernel reports per frame
    rank_frames_method,                \* configuration.rank_frames_method
    frames_index_translation_active,   \* frames.index_translation_active
    \* RankFrames fields
    number_original,
    frame_ranks_original,
    quality_sorted_indices_original,
    rank_indices_original,
    frame_ranks_max_index_original,
    frame_ranks_max_value_original,
    number,
    frame_ranks,
    quality_sorted_indices,
    rank_indices,
    frame_ranks_max_index,
    frame_ranks_max_value,
    \* the last call made on the rank engine: its arguments and what it
    \* returned or raised
    rank_call,
    \* history: whether set_index_translation has been called since scoring
    translation_applied

rank_vars == <<raw_scores, rank_frames_method, frames_index_translation_active,
               number_original, frame_ranks_original,
               quality_sorted_indices_original, rank_indices_original,
               frame_ranks_max_index_original, frame_ranks_max_value_original,
               number, frame_ranks, quality_sorted_indices, rank_indices,
               frame_ranks_max_index, frame_ranks_max_value, rank_call,
               translation_applied>>

\* The state of StackFrames (src/src/stack_frames.py).
VARIABLES
    \* the collaborators handed to StackFrames.__init__
    configuration,      \* the configuration parameters the engine reads
    frames,             \* the frame source
    align_frames,       \* intersection_shape and the global shifts dy, dx
    alignment_points,   \* stack_size and the list of alignment points
    \* StackFrames fields
    stacked_image_buffer,
    sum_single_frame_weights,
    number_stacking_holes,
    averaged_background,
    background_patches,
    shift_distribution,
    shift_failure_counter,
    border_y_low,
    border_y_high,
    border_x_low,
    border_x_high,
    stacked_image,
    \* the position of the stacking workflow and of the loops of stack_frames
    stack_pc,
    frame_index,        \* the number of passes of the loop over all frames done
    ap_position,
    \* the sequence the loop over all frames runs through:
    \* range(frames.number) in stack_frames
    frame_order,
    \* the locals of the last alignment point step of stack_frames:
    \* [frame_index, alignment_point_index, shift_y_drizzled, shift_x_drizzled,
    \*  success], or None
    last_shift,
    \* history: per alignment point, the sum of the shifted patches of the
    \* frames evaluated with success = TRUE and of those evaluated with
    \* success = FALSE, and the number of (frame, alignment point) pairs
    \* evaluated so far
    success_patch_sum,
    failure_patch_sum,
    pairs_evaluated,
    \* history: what compute_shift_alignment_point returned for every
    \* (frame, alignment point) pair evaluated so far
    shift_log

stack_vars == <<configuration, frames, align_frames, alignment_points,
                stacked_image_buffer, sum_single_frame_weights,
                number_stacking_holes, averaged_background, background_patches,
                shift_distribution, shift_failure_counter, border_y_low,
                border_y_high, border_x_low, border_x_high, stacked_image,
                stack_pc, frame_index, ap_position, frame_order, last_shift,
                success_patch_sum, failure_patch_sum, pairs_evaluated,
                shift_log>>

\* The caller of StackFrames (the workflow thread that runs stack_frames).
VARIABLES
    \* whether the caller wants the stacking run to stop.  StackFrames.__init__
    \* takes no parameter for it and no statement of stack_frames reads it.
    cancellation_flag

caller_vars == <<cancellation_flag>>

\* A field that may hold Python's None: None is <<>>, the value v is <<v>>.
None == <<>>
Some(v) == <<v>>
Val(field) == field[1]

\* Mutant of SupportedMethods: every configured method is accepted.
SupportedMethodsAndMedian == {"xy gradient", "Laplace", "Sobel", "Median"}

\* The kernels frame_score accepts.
SupportedMethods == {"xy gradient", "Laplace", "Sobel"}
Methods == SupportedMethods \cup {"Median"}

\* Scenario S4 of the specification: scores 0.2, 0.9, 0.5, 1.0, 0.7 (in tenths).
ScenarioS4 == <<2, 9, 5, 10, 7>>

\* The raw score vectors of a run: every vector of 1..MaxN positive values,
\* and the scenario's.
RawScoreVectors ==
    UNION {[1..n -> 1..MaxRaw] : n \in 1..MaxN} \cup {ScenarioS4}

\* A call record: the method, its arguments, and what it returned or raised.
Call(op, k, w, T, best, loss, cog, err) ==
    [op |-> op, number_frames |-> k, region_size |-> w, index_translation |-> T,
     best_indices |-> best, quality_loss_percent |-> loss,
     cog_mean_frame |-> cog, error |-> err]

\* RankFrames.__init__
RankInit ==
    /\ raw_scores \in RawScoreVectors
    /\ rank_frames_method \in Methods
    /\ frames_index_translation_active \in BOOLEAN
    /\ number_original = Len(raw_scores)
    /\ frame_ranks_original = <<>>
    /\ quality_sorted_indices_original = None
    /\ rank_indices_original = None
    /\ frame_ranks_max_index_original = None
    /\ frame_ranks_max_value_original = None
    /\ number = None
    /\ frame_ranks = None
    /\ quality_sorted_indices = None
    /\ rank_indices = None
    /\ frame_ranks_max_index = None
    /\ frame_ranks_max_value = None
    /\ rank_call = Call("__init__", None, None, None, None, None, None, None)
    /\ translation_applied = FALSE
    \* StackFrames is not constructed yet
    /\ configuration = None
    /\ frames = None
    /\ align_frames = None
    /\ alignment_points = None
    /\ stacked_image_buffer = None
    /\ sum_single_frame_weights = None
    /\ number_stacking_holes = None
    /\ averaged_background = None
    /\ background_patches = None
    /\ shift_distribution = None
    /\ shift_failure_counter = None
    /\ border_y_low = None
    /\ border_y_high = None
    /\ border_x_low = None
    /\ border_x_high = None
    /\ stacked_image = None
    /\ stack_pc = "idle"
    /\ frame_order = None
    /\ frame_index = None
    /\ ap_position = None
    /\ last_shift = None
    /\ success_patch_sum = None
    /\ failure_patch_sum = None
    /\ pairs_evaluated = 0
    /\ shift_log = {}
    /\ cancellation_flag = FALSE

\* Mutant of QualitySortedIndices: an ascending sort read backwards, which
\* lists frames of equal score in descending index order.
QualitySortedIndicesTiesReversed(ranks, n) ==
    SortedDesc([j \in 1..n |-> n - j], ranks)

\* sorted(range(number), key=ranks.__getitem__, reverse=True)
QualitySortedIndices(ranks, n) == SortedDesc(Range(0, n), ranks)

\* The raw quality values appended to frame_ranks_original by the frame loop.
RawRanks == [j \in 1..Len(raw_scores) |-> RInt(raw_scores[j])]

\* frame_score
FrameScore ==
    /\ rank_call.op = "__init__"
    /\ IF rank_frames_method \notin SupportedMethods
       THEN /\ rank_call' = Call("frame_score", None, None, None, None, None, None,
                                 Some("NotSupportedError"))
            /\ UNCHANGED <<raw_scores, rank_frames_method,
                           frames_index_translation_active, number_original,
                           frame_ranks_original, quality_sorted_indices_original,
                           rank_indices_original, frame_ranks_max_index_original,
                           frame_ranks_max_value_original, number, frame_ranks,
                           quality_sorted_indices, rank_indices,
                           frame_ranks_max_index, frame_ranks_max_value,
                           translation_applied>>
       ELSE LET sortedIdx == QualitySortedIndices(RawRanks, number_original)
                inverse == InverseIndices(sortedIdx, number_original)
                maxIndex == At(sortedIdx, 0)
                maxValue == At(RawRanks, maxIndex)
                normalized == Normalize(RawRanks, maxValue)
            IN  /\ frames_index_translation_active' = FALSE
                /\ quality_sorted_indices_original' = Some(sortedIdx)
                /\ rank_indices_original' = Some(inverse)
                /\ frame_ranks_max_index_original' = Some(maxIndex)
                /\ frame_ranks_max_value_original' = Some(maxValue)
                /\ frame_ranks_original' = normalized
                /\ number' = Some(number_original)
                /\ frame_ranks' = Some(normalized)
                /\ quality_sorted_indices' = Some(sortedIdx)
                /\ rank_indices' = Some(inverse)
                /\ frame_ranks_max_index' = Some(maxIndex)
                /\ frame_ranks_max_value' = Some(maxValue)
                /\ rank_call' = Call("frame_score", None, None, None, None, None,
                                     None, None)
                /\ UNCHANGED <<raw_scores, rank_frames_method, number_original,
                               translation_applied>>

\* Whether frame_score has completed.
Scored == quality_sorted_indices_original # None

\* The index translation lists the frames module hands over: the original
\* indices of the frames kept, in ascending order, at least one.
RECURSIVE AscendingList(_, _)
AscendingList(S, lo) ==
    IF \A i \in S : i < lo THEN <<>>
    ELSE LET m == CHOOSE i \in S : i >= lo /\ \A j \in S : j >= lo => i <= j
         IN  <<m>> \o AscendingList(S, m + 1)

IndexTranslations(n) ==
    {AscendingList(S, 0) : S \in (SUBSET (0..(n - 1))) \ {{}}}

\* Mutant of TranslatedActiveSet: the gathered scores are not renormalised.
TranslatedActiveSetUnnormalized(index_translation) ==
    LET n == Len(index_translation)
        gathered == Gather(frame_ranks_original, index_translation)
        sortedIdx == QualitySortedIndices(gathered, n)
        inverse == InverseIndices(sortedIdx, n)
        maxIndex == At(sortedIdx, 0)
        maxValue == At(gathered, maxIndex)
    IN  <<Some(n), Some(gathered), Some(sortedIdx), Some(inverse),
          Some(maxIndex), Some(maxValue)>>

\* The active set set_index_translation(index_translation) builds:
\* <<number, frame_ranks, quality_sorted_indices, rank_indices,
\*   frame_ranks_max_index, frame_ranks_max_value>>.
TranslatedActiveSet(index_translation) ==
    LET n == Len(index_translation)
        gathered == Gather(frame_ranks_original, index_translation)
        sortedIdx == QualitySortedIndices(gathered, n)
        inverse == InverseIndices(sortedIdx, n)
        maxIndex == At(sortedIdx, 0)
        maxValue == At(gathered, maxIndex)
    IN  <<Some(n), Some(Normalize(gathered, maxValue)), Some(sortedIdx),
          Some(inverse), Some(maxIndex), Some(maxValue)>>

\* Mutant of FrameRanksOriginalAfterTranslation: frame_ranks still refers to
\* the array of the original scores when it is divided in place.
FrameRanksOriginalDividedInPlace(index_translation) ==
    Normalize(frame_ranks_original, Val(TranslatedActiveSet(index_translation)[6]))

\* What frame_ranks_original holds when set_index_translation returns. After
\* frame_score and after a reset, frame_ranks refers to the same array as
\* frame_ranks_original; set_index_translation first rebinds frame_ranks to a
\* new list and only then divides it, so the original array is not written.
FrameRanksOriginalAfterTranslation(index_translation) == frame_ranks_original

\* set_index_translation(index_translation)
SetIndexTranslation(index_translation) ==
    /\ Scored
    /\ frame_ranks_original' = FrameRanksOriginalAfterTranslation(index_translation)
    /\ LET active == TranslatedActiveSet(index_translation)
       IN  /\ number' = active[1]
           /\ frame_ranks' = active[2]
           /\ quality_sorted_indices' = active[3]
           /\ rank_indices' = active[4]
           /\ frame_ranks_max_index' = active[5]
           /\ frame_ranks_max_value' = active[6]
    /\ rank_call' = Call("set_index_translation", None, None,
                         Some(index_translation), None, None, None, None)
    /\ translation_applied' = TRUE
    /\ UNCHANGED <<raw_scores, rank_frames_method, frames_index_translation_active,
                   number_original,
                   quality_sorted_indices_original, rank_indices_original,
                   frame_ranks_max_index_original, frame_ranks_max_value_original>>

\* Mutant of ResetActiveSet: the reset forgets to restore number.
ResetActiveSetKeepsNumber ==
    <<number, Some(frame_ranks_original),
      quality_sorted_indices_original, rank_indices_original,
      frame_ranks_max_index_original, frame_ranks_max_value_original>>

\* The active set reset_index_translation installs, in the same order.
ResetActiveSet ==
    <<Some(number_original), Some(frame_ranks_original),
      quality_sorted_indices_original, rank_indices_original,
      frame_ranks_max_index_original, frame_ranks_max_value_original>>

\* reset_index_translation
ResetIndexTranslation ==
    /\ Scored
    /\ number' = ResetActiveSet[1]
    /\ frame_ranks' = ResetActiveSet[2]
    /\ quality_sorted_indices' = ResetActiveSet[3]
    /\ rank_indices' = ResetActiveSet[4]
    /\ frame_ranks_max_index' = ResetActiveSet[5]
    /\ frame_ranks_max_value' = ResetActiveSet[6]
    /\ rank_call' = Call("reset_index_translation", None, None, None, None, None,
                         None, None)
    /\ UNCHANGED translation_applied
    /\ UNCHANGED <<raw_scores, rank_frames_method, frames_index_translation_active,
                   number_original, frame_ranks_original,
                   quality_sorted_indices_original, rank_indices_original,
                   frame_ranks_max_index_original, frame_ranks_max_value_original>>

\* Mutant of BestIndicesInRange: the window's first number_frames indices,
\* without sorting them by quality.
BestIndicesInRangeUnsorted(ranks, start_index, number_frames, region_size) ==
    Take(Range(start_index, start_index + region_size), number_frames)

\* The best number_frames indices of the window starting at start_index:
\* sorted(range(start_index, end_index), key=ranks, reverse=True)[:number_frames]
BestIndicesInRange(ranks, start_index, number_frames, region_size) ==
    Take(SortedDesc(Range(start_index, start_index + region_size), ranks),
         number_frames)

\* sum([ranks[i] for i in indices])
RankSum(ranks, indices) == RSum(Gather(ranks, indices))

\* Mutant of BetterWindow: a window that equals the optimum replaces it.
BetterWindowOrEqual(rank_sum, rank_sum_opt) == RLeq(rank_sum_opt, rank_sum)

\* Whether the window's rank_sum replaces the optimum found so far.
BetterWindow(rank_sum, rank_sum_opt) == RLess(rank_sum_opt, rank_sum)

\* The sliding-window loop from start_index on, entered with the optimum
\* found so far; gives <<rank_sum_opt, best_indices>> after the last window.
RECURSIVE WindowScan(_, _, _, _, _, _, _)
WindowScan(ranks, n, number_frames, region_size, start_index, rank_sum_opt, best_indices) ==
    IF start_index > n - region_size THEN <<rank_sum_opt, best_indices>>
    ELSE LET inRange == BestIndicesInRange(ranks, start_index, number_frames,
                                           region_size)
             rank_sum == RankSum(ranks, inRange)
         IN  IF BetterWindow(rank_sum, rank_sum_opt)
             THEN WindowScan(ranks, n, number_frames, region_size,
                             start_index + 1, rank_sum, inRange)
             ELSE WindowScan(ranks, n, number_frames, region_size,
                             start_index + 1, rank_sum_opt, best_indices)

\* round(100. * (rank_sum_global - rank_sum_opt) / rank_sum_global, 1), in tenths.
QualityLossPercent(rank_sum_global, rank_sum_opt) ==
    RoundTenths(RDiv(RMul(RInt(100), RSub(rank_sum_global, rank_sum_opt)),
                     rank_sum_global))

\* Mutant of CogMeanFrame: the mean index relative to the last index, number - 1.
CogMeanFrameLastIndex(best_indices, n) ==
    RoundTenths(Rat(100 * ISum(best_indices), Len(best_indices) * (n - 1)))

\* round(100 * mean(best_indices) / number, 1), in tenths.
CogMeanFrame(best_indices, n) ==
    RoundTenths(Rat(100 * ISum(best_indices), Len(best_indices) * n))

\* find_best_frames(number_frames, region_size)
FindBestFrames(number_frames, region_size) ==
    /\ Scored
    /\ LET ranks == Val(frame_ranks)
           n == Val(number)
           scan == WindowScan(ranks, n, number_frames, region_size, 0, RInt(0),
                              <<>>)
           rank_sum_global ==
               RankSum(ranks, Take(Val(quality_sorted_indices), number_frames))
       IN  rank_call' =
             IF number_frames > region_size \/ region_size > n
             THEN Call("find_best_frames", Some(number_frames), Some(region_size),
                       None, None, None, None, Some("ArgumentError"))
             ELSE IF rank_sum_global = RInt(0)
             THEN Call("find_best_frames", Some(number_frames), Some(region_size),
                       None, None, None, None, Some("ZeroDivisionError"))
             ELSE Call("find_best_frames", Some(number_frames), Some(region_size),
                       None, Some(scan[2]),
                       Some(QualityLossPercent(rank_sum_global, scan[1])),
                       Some(CogMeanFrame(scan[2], n)), None)
    /\ UNCHANGED <<raw_scores, rank_frames_method, frames_index_translation_active,
                   number_original, frame_ranks_original,
                   quality_sorted_indices_original, rank_indices_original,
                   frame_ranks_max_index_original, frame_ranks_max_value_original,
                   number, frame_ranks, quality_sorted_indices, rank_indices,
                   frame_ranks_max_index, frame_ranks_max_value,
                   translation_applied>>

\* The calls a client makes on the rank engine.
\* -------------------------------------------------------- RankFrames claims
\* The sum of the scores of a set of frame indices.
RECURSIVE ScoreOfSet(_, _)
ScoreOfSet(ranks, S) ==
    IF S = {} THEN RInt(0)
    ELSE LET i == CHOOSE j \in S : TRUE
         IN  RAdd(At(ranks, i), ScoreOfSet(ranks, S \ {i}))

\* The elements of a list.
Elements(list) == {list[j] : j \in 1..Len(list)}

\* The indices of the contiguous window [s, s + w).
Window(s, w) == s..(s + w - 1)

\* find_best_frames was the last call, with arguments k <= window <= number.
FoundBestFrames ==
    /\ rank_call.op = "find_best_frames"
    /\ Val(rank_call.number_frames) >= 1
    /\ Val(rank_call.number_frames) <= Val(rank_call.region_size)
    /\ Val(rank_call.region_size) <= Val(number)

\* C1: for every active score vector and 1 <= k <= window <= N,
\* find_best_frames(k, window) returns exactly k distinct indices, all inside
\* one contiguous window [s, s + window), and the sum of their scores is >=
\* the sum of any k scores of any contiguous window of that length.
C1_WindowBest ==
    FoundBestFrames =>
        /\ rank_call.error = None
        /\ LET k == Val(rank_call.number_frames)
               w == Val(rank_call.region_size)
               best == Val(rank_call.best_indices)
               ranks == Val(frame_ranks)
               starts == 0..(Val(number) - w)
           IN  /\ Len(best) = k
               /\ Cardinality(Elements(best)) = k
               /\ \E st \in starts : Elements(best) \subseteq Window(st, w)
               /\ \A st \in starts : \A S \in SUBSET Window(st, w) :
                      Cardinality(S) = k =>
                          RLeq(ScoreOfSet(ranks, S),
                               ScoreOfSet(ranks, Elements(best)))

\* Witness of C1: a search with 2 <= k < window < N over scores that differ,
\* whose best window is not the first one.
C1_Witness ==
    /\ FoundBestFrames
    /\ Val(rank_call.number_frames) >= 2
    /\ Val(rank_call.number_frames) < Val(rank_call.region_size)
    /\ Val(rank_call.region_size) < Val(number)
    /\ translation_applied
    /\ ~(Elements(Val(rank_call.best_indices))
            \subseteq Window(0, Val(rank_call.region_size)))

\* Scenario S4: the untranslated scores 0.2, 0.9, 0.5, 1.0, 0.7 and the call
\* find_best_frames(2, 3).
ScenarioS4Searched ==
    /\ raw_scores = ScenarioS4
    /\ rank_call.op = "find_best_frames"
    /\ rank_call.number_frames = Some(2)
    /\ rank_call.region_size = Some(3)
    /\ Val(number) = 5
    /\ frame_ranks = Some(frame_ranks_original)

\* C2 as claimed: in scenario S4 find_best_frames(2, 3) returns the index set
\* {3, 4} of window [2, 5), quality_loss_percent = 10.5 and cog = 70.0.
C2_ScenarioS4_AsClaimed ==
    ScenarioS4Searched =>
        /\ Elements(Val(rank_call.best_indices)) = {3, 4}
        /\ rank_call.quality_loss_percent = Some(105)
        /\ rank_call.cog_mean_frame = Some(700)

\* C2 as amended: in scenario S4 the window [1, 4) holds the two globally best
\* frames, so find_best_frames(2, 3) returns the indices [3, 1] (score sum
\* 1.9), quality_loss_percent = 0.0 and cog = round(100 * 2 / 5, 1) = 40.0.
C2_ScenarioS4 ==
    ScenarioS4Searched =>
        /\ rank_call.best_indices = Some(<<3, 1>>)
        /\ Elements(Val(rank_call.best_indices)) \subseteq Window(1, 3)
        /\ rank_call.quality_loss_percent = Some(0)
        /\ rank_call.cog_mean_frame = Some(400)

C2_Witness == ScenarioS4Searched /\ rank_call.error = None

\* The values frame_score computes from the raw scores, in the order
\* <<number, frame_ranks, quality_sorted_indices, rank_indices,
\*   frame_ranks_max_index, frame_ranks_max_value>>.
ScoredSet ==
    LET n == Len(raw_scores)
        best == CHOOSE i \in 0..(n - 1) :
                    \A j \in 0..(n - 1) :
                        \/ At(raw_scores, j) < At(raw_scores, i)
                        \/ At(raw_scores, j) = At(raw_scores, i) /\ i <= j
    IN  <<Some(n),
          Some([j \in 1..n |-> Rat(raw_scores[j], At(raw_scores, best))]),
          quality_sorted_indices_original, rank_indices_original,
          Some(best), Some(RInt(At(raw_scores, best)))>>

\* The active set and the saved originals, in that order.
ActiveSet ==
    <<number, frame_ranks, quality_sorted_indices, rank_indices,
      frame_ranks_max_index, frame_ranks_max_value>>

OriginalSet ==
    <<Some(number_original), Some(frame_ranks_original),
      quality_sorted_indices_original, rank_indices_original,
      frame_ranks_max_index_original, frame_ranks_max_value_original>>

\* C9: after score_all and any sequence of set_index_translation calls,
\* reset_index_translation restores every field of the active set (number,
\* frame_ranks, quality_sorted_indices, rank_indices, best index, best value)
\* to the saved originals, which are still the values scoring produced.
C9_ResetRestores ==
    rank_call.op = "reset_index_translation" =>
        /\ ActiveSet = OriginalSet
        /\ ActiveSet = ScoredSet

\* Witness of C9: a reset made after a translation was applied.
C9_Witness ==
    /\ rank_call.op = "reset_index_translation"
    /\ translation_applied
    /\ number_original >= 2

\* set_index_translation(range(N)) was the last call.
IdentityTranslated ==
    /\ rank_call.op = "set_index_translation"
    /\ rank_call.index_translation = Some(Range(0, number_original))

\* C10: after score_all, set_index_translation(range(N)) leaves the active set
\* equal to the originals: number, frame_ranks, quality_sorted_indices,
\* rank_indices, best index and best value equal their *_original
\* counterparts.
C10_IdentityTranslation ==
    IdentityTranslated => ActiveSet = OriginalSet

\* What does hold after the identity translation: every field but the best
\* value equals its original, and the best value is the normalised score 1.0
\* of the best frame, not the raw maximum frame_score saved.
C10_IdentityTranslationButBestValue ==
    IdentityTranslated =>
        /\ \A f \in 1..5 : ActiveSet[f] = OriginalSet[f]
        /\ frame_ranks_max_value = Some(RInt(1))

\* Equality of two rationals.
REq(a, b) == a[1] * b[2] = b[1] * a[2]

\* Whether list holds every index of 0..n-1 exactly once.
IsPermutation(list, n) == Len(list) = n /\ Elements(list) = 0..(n - 1)

\* Whether the two index lists are inverse to each other.
IsInverse(sortedList, ranks_of, n) ==
    \A i \in 0..(n - 1) :
        /\ At(sortedList, At(ranks_of, i)) = i
        /\ At(ranks_of, At(sortedList, i)) = i

\* Whether sortedList is in descending score order, equal scores in ascending
\* index order.
DescendingTiesAscending(sortedList, ranks) ==
    \A r, s \in 1..Len(sortedList) :
        r < s =>
            \/ RLess(At(ranks, sortedList[s]), At(ranks, sortedList[r]))
            \/ /\ REq(At(ranks, sortedList[s]), At(ranks, sortedList[r]))
               /\ sortedList[r] < sortedList[s]

\* set_index_translation was the last call.
Translated == rank_call.op = "set_index_translation"

\* C11: for every non-empty translation vector T of distinct original indices,
\* after set_index_translation(T): number = len(T); the active score of
\* surviving frame j is original_score[T[j]] divided by the maximum of
\* original_score over T, so the maximum active score is 1.0; and both index
\* views are rebuilt over 0..len(T)-1 from those active scores.
C11_TranslationBuildsActiveSet ==
    Translated =>
        LET T == Val(rank_call.index_translation)
            n == Len(T)
            top == CHOOSE m \in 1..n :
                       \A j \in 1..n : RLeq(At(frame_ranks_original, T[j]),
                                            At(frame_ranks_original, T[m]))
            active == Val(frame_ranks)
        IN  /\ number = Some(n)
            /\ Len(active) = n
            /\ \A j \in 1..n :
                   REq(active[j], RDiv(At(frame_ranks_original, T[j]),
                                       At(frame_ranks_original, T[top])))
            /\ \E j \in 1..n : REq(active[j], RInt(1))
            /\ \A j \in 1..n : RLeq(active[j], RInt(1))
            /\ IsPermutation(Val(quality_sorted_indices), n)
            /\ DescendingTiesAscending(Val(quality_sorted_indices), active)
            /\ IsPermutation(Val(rank_indices), n)
            /\ IsInverse(Val(quality_sorted_indices), Val(rank_indices), n)
            /\ frame_ranks_max_index = Some(At(Val(quality_sorted_indices), 0))

\* Witness of C11: a translation that keeps at least two frames of different
\* score and drops the best frame, so that the scores are rescaled.
C11_Witness ==
    /\ Translated
    /\ Val(number) >= 2
    /\ Val(frame_ranks_max_index_original)
           \notin Elements(Val(rank_call.index_translation))
    /\ \E j \in 1..Val(number) : RLess(Val(frame_ranks)[j], RInt(1))
    /\ Val(frame_ranks) # Gather(frame_ranks_original,
                                 Val(rank_call.index_translation))

\* C12: after score_all and after any subsequent sequence of
\* set_index_translation / reset_index_translation calls,
\* quality_sorted_indices is a permutation of 0..number-1 and rank_indices is
\* its inverse: quality_sorted_indices[rank_indices[i]] = i for all i and
\* rank_indices[quality_sorted_indices[r]] = r for all r. The same holds for
\* the original views.
C12_PermutationInverse ==
    Scored =>
        /\ IsPermutation(Val(quality_sorted_indices), Val(number))
        /\ IsPermutation(Val(rank_indices), Val(number))
        /\ IsInverse(Val(quality_sorted_indices), Val(rank_indices), Val(number))
        /\ IsPermutation(Val(quality_sorted_indices_original), number_original)
        /\ IsInverse(Val(quality_sorted_indices_original),
                     Val(rank_indices_original), number_original)

\* Witness of C12: after a translation, an active order of three frames that
\* is not its own inverse.
C12_Witness ==
    /\ Scored
    /\ translation_applied
    /\ Val(number) >= 3
    /\ Val(quality_sorted_indices) # Val(rank_indices)

\* C13: quality_sorted_indices lists the frame indices in descending score
\* order, and frames with equal scores appear in ascending index order; this
\* holds for the original view after score_all and for the active view after
\* set_index_translation.
C13_DescendingTiesAscending ==
    Scored =>
        /\ DescendingTiesAscending(Val(quality_sorted_indices_original),
                                   frame_ranks_original)
        /\ DescendingTiesAscending(Val(quality_sorted_indices), Val(frame_ranks))

\* Witness of C13: an active view after a translation in which two frames
\* have the same score and a third one a different score.
C13_Witness ==
    /\ Translated
    /\ Val(number) >= 3
    /\ \E i, j, m \in 1..Val(number) :
           /\ i < j
           /\ REq(Val(frame_ranks)[i], Val(frame_ranks)[j])
           /\ ~REq(Val(frame_ranks)[i], Val(frame_ranks)[m])

\* frame_score was the last call and it completed.
AfterScoreAll == rank_call.op = "frame_score" /\ rank_call.error = None

\* Every normalised score lies in (0, 1] and the maximum is 1.0.
ScoresNormalised(ranks) ==
    /\ \A j \in 1..Len(ranks) : RLess(RInt(0), ranks[j]) /\ RLeq(ranks[j], RInt(1))
    /\ \E j \in 1..Len(ranks) : REq(ranks[j], RInt(1))

\* C14 as claimed: after score_all over N >= 1 frames with positive raw
\* scores, every normalised score lies in (0, 1], max(frame_ranks) = 1.0, and
\* best_index (frame_ranks_max_index) is the unique index whose score is 1.0.
C14_UniqueBest ==
    AfterScoreAll =>
        /\ ScoresNormalised(Val(frame_ranks))
        /\ \A i \in 0..(Val(number) - 1) :
               REq(At(Val(frame_ranks), i), RInt(1))
                   <=> i = Val(frame_ranks_max_index)

\* C14 as amended: after score_all over N >= 1 frames with positive raw
\* scores, every normalised score lies in (0, 1], max(frame_ranks) = 1.0, and
\* best_index is the smallest index whose score is 1.0; it is the only such
\* index exactly when no other frame attains the maximal raw score.
C14_FirstBest ==
    AfterScoreAll =>
        /\ Val(number) = Len(raw_scores)
        /\ Len(Val(frame_ranks)) = Val(number)
        /\ ScoresNormalised(Val(frame_ranks))
        /\ REq(At(Val(frame_ranks), Val(frame_ranks_max_index)), RInt(1))
        /\ \A i \in 0..(Val(number) - 1) :
               REq(At(Val(frame_ranks), i), RInt(1))
                   => Val(frame_ranks_max_index) <= i
        /\ \A i \in 0..(Val(number) - 1) :
               REq(At(Val(frame_ranks), i), RInt(1))
                   <=> At(raw_scores, i) = At(raw_scores, Val(frame_ranks_max_index))

\* Witness of C14: three or more frames scored, two of them with the maximal
\* score, the first of them not frame 0.
C14_Witness ==
    /\ AfterScoreAll
    /\ Val(number) >= 3
    /\ Val(frame_ranks_max_index) > 0
    /\ \E i \in 0..(Val(number) - 1) :
           /\ i # Val(frame_ranks_max_index)
           /\ REq(At(Val(frame_ranks), i), RInt(1))

\* The fields of the rank engine.
RankFields == <<ActiveSet, OriginalSet, frames_index_translation_active>>

\* C15: find_best_frames(k, window) fails with ArgumentError whenever
\* k > window or window > N (N = number of frames), it raises before computing
\* anything and leaves the rank engine's state unchanged; for every
\* k <= window <= N it returns a result and raises no error.
C15_FindBestFramesErrors ==
    [][rank_call'.op = "find_best_frames" =>
          /\ RankFields' = RankFields
          /\ IF \/ Val(rank_call'.number_frames) > Val(rank_call'.region_size)
                \/ Val(rank_call'.region_size) > Val(number)
             THEN /\ rank_call'.error = Some("ArgumentError")
                  /\ rank_call'.best_indices = None
             ELSE /\ rank_call'.error = None
                  /\ rank_call'.best_indices # None]_<<rank_vars, stack_vars>>

\* What does hold of the error behaviour of find_best_frames: the same, for
\* calls with k >= 1. find_best_frames(0, window) passes the argument check
\* and fails in the division by rank_sum_global = 0.
C15_FindBestFramesErrorsPositiveCount ==
    [][rank_call'.op = "find_best_frames" =>
          /\ RankFields' = RankFields
          /\ IF \/ Val(rank_call'.number_frames) > Val(rank_call'.region_size)
                \/ Val(rank_call'.region_size) > Val(number)
             THEN /\ rank_call'.error = Some("ArgumentError")
                  /\ rank_call'.best_indices = None
             ELSE IF Val(rank_call'.number_frames) >= 1
             THEN /\ rank_call'.error = None
                  /\ rank_call'.best_indices # None
             ELSE rank_call'.error = Some("ZeroDivisionError")]_<<rank_vars, stack_vars>>

\* The sum of the best k scores of the window [s, s + w).
TopSum(ranks, s, k, w) == RankSum(ranks, BestIndicesInRange(ranks, s, k, w))

\* Whether the window starting at s attains the maximal top-k score sum.
MaximalWindow(ranks, n, s, k, w) ==
    \A t \in 0..(n - w) : RLeq(TopSum(ranks, t, k, w), TopSum(ranks, s, k, w))

\* C16: when several contiguous windows attain the same maximal top-k score
\* sum, find_best_frames returns the indices chosen from the window with the
\* smallest start index s.
C16_TiesSmallestStart ==
    FoundBestFrames =>
        LET k == Val(rank_call.number_frames)
            w == Val(rank_call.region_size)
            n == Val(number)
            ranks == Val(frame_ranks)
            first == CHOOSE s \in 0..(n - w) :
                         /\ MaximalWindow(ranks, n, s, k, w)
                         /\ \A t \in 0..(s - 1) : ~MaximalWindow(ranks, n, t, k, w)
        IN  /\ Elements(Val(rank_call.best_indices)) \subseteq Window(first, w)
            /\ rank_call.best_indices = Some(BestIndicesInRange(ranks, first, k, w))

\* Witness of C16: two windows attain the maximal sum with different index
\* sets, and the indices of the earlier one are returned.
C16_Witness ==
    /\ FoundBestFrames
    /\ rank_call.error = None
    /\ LET k == Val(rank_call.number_frames)
           w == Val(rank_call.region_size)
           n == Val(number)
           ranks == Val(frame_ranks)
       IN  \E s, t \in 0..(n - w) :
               /\ s < t
               /\ MaximalWindow(ranks, n, s, k, w)
               /\ MaximalWindow(ranks, n, t, k, w)
               /\ Elements(BestIndicesInRange(ranks, s, k, w))
                      # Elements(BestIndicesInRange(ranks, t, k, w))
               /\ ~(Elements(BestIndicesInRange(ranks, t, k, w))
                       \subseteq Window(s, w))

\* C17: score_all with a rank_frames_method other than "xy gradient",
\* "Laplace" or "Sobel" fails with NotSupportedError before any frame is
\* scored, leaving frame_ranks_original empty, all index views unset and the
\* frame source's index translation untouched; with one of the three methods
\* it raises nothing.
C17_UnsupportedMethodRaises ==
    [][rank_call'.op = "frame_score" =>
          IF rank_frames_method \notin {"xy gradient", "Laplace", "Sobel"}
          THEN /\ rank_call'.error = Some("NotSupportedError")
               /\ frame_ranks_original' = <<>>
               /\ quality_sorted_indices_original' = None
               /\ rank_indices_original' = None
               /\ quality_sorted_indices' = None
               /\ rank_indices' = None
               /\ frame_ranks' = None
               /\ number' = None
               /\ frames_index_translation_active' = frames_index_translation_active
          ELSE rank_call'.error = None]_<<rank_vars, stack_vars>>

\* Witness of C17: the error was raised for a frame source of two or more
\* frames whose index translation is active, and it still is.
C17_Witness ==
    /\ rank_call.op = "frame_score"
    /\ rank_call.error = Some("NotSupportedError")
    /\ frames_index_translation_active
    /\ number_original >= 2

\* C18: once score_all has completed, no sequence of set_index_translation,
\* reset_index_translation and find_best_frames calls changes any *_original
\* field (number_original, frame_ranks_original,
\* quality_sorted_indices_original, rank_indices_original, best index and best
\* value originals): in every state reached they hold what scoring computed
\* from the raw scores.
C18_OriginalsImmutable ==
    Scored =>
        LET n == Len(raw_scores)
            best == CHOOSE i \in 0..(n - 1) :
                        \A j \in 0..(n - 1) :
                            \/ At(raw_scores, j) < At(raw_scores, i)
                            \/ At(raw_scores, j) = At(raw_scores, i) /\ i <= j
        IN  /\ number_original = n
            /\ frame_ranks_original =
                   [j \in 1..n |-> Rat(raw_scores[j], At(raw_scores, best))]
            /\ quality_sorted_indices_original =
                   Some(QualitySortedIndices(RawRanks, n))
            /\ rank_indices_original =
                   Some(InverseIndices(QualitySortedIndices(RawRanks, n), n))
            /\ frame_ranks_max_index_original = Some(best)
            /\ frame_ranks_max_value_original = Some(RInt(At(raw_scores, best)))

\* Witness of C18: a search made after a translation was applied and reset
\* again, so that the active fields are the originals once more.
C18_Witness ==
    /\ rank_call.op = "find_best_frames"
    /\ translation_applied
    /\ ActiveSet = OriginalSet
    /\ frame_ranks_max_value_original # Some(RInt(1))
    /\ number_original >= 3

\* =============================================================== StackFrames
\* ------------------------------------------------------------ numpy arrays
\* A 2-D array is a list of rows; a[y, x] is At(At(a, y), x).
Full(h, w, v) == [y \in 1..h |-> [x \in 1..w |-> v]]
Zeros(h, w) == Full(h, w, 0)
Rows(a) == Len(a)
Cols(a) == IF Len(a) = 0 THEN 0 ELSE Len(a[1])
Max(a, b) == IF a > b THEN a ELSE b
Min(a, b) == IF a < b THEN a ELSE b

\* The bounds <<start, stop>> Python gives the slice [lo:hi] of a dimension
\* of length n: a negative bound counts from the end, both are clamped to
\* 0..n, and the slice is empty when stop <= start.
SliceBound(i, n) == IF i < 0 THEN Max(i + n, 0) ELSE Min(i, n)
PySlice(lo, hi, n) ==
    LET start == SliceBound(lo, n)
        stop == SliceBound(hi, n)
    IN  <<start, Max(start, stop)>>

\* int(round(sqrt(n))) for an integer n >= 0.
RoundSqrt(n) ==
    CHOOSE r \in 0..(n + 1) :
        /\ r = 0 \/ (2 * r - 1) * (2 * r - 1) <= 4 * n
        /\ 4 * n < (2 * r + 1) * (2 * r + 1)

\* ---------------------------------------------------------- blending weights
\* arange(1, center_offset + 1, 1) / float32(center_offset + 1), or ones: the
\* weights one_dim_weight stores at indices 0 .. center_offset - 1.
LowRamp(center_offset, extend_low) ==
    [j \in 1..center_offset |->
        IF extend_low THEN RInt(1) ELSE Rat(j, center_offset + 1)]

\* Mutant of HighRamp: the ramp runs from (length - 1) / length down to 0.
HighRampToZero(length, extend_high) ==
    [j \in 1..length |->
        IF extend_high THEN RInt(1) ELSE Rat(length - j, length)]

\* arange(patch_high - box_center, 0, -1) / float32(patch_high - box_center),
\* or ones: the weights at indices center_offset .. patch_high_offset - 1.
HighRamp(length, extend_high) ==
    [j \in 1..length |->
        IF extend_high THEN RInt(1) ELSE Rat(length - j + 1, length)]

\* one_dim_weight(patch_low, patch_high, box_center, extend_low, extend_high),
\* for a box centre inside the patch.
OneDimWeight(patch_low, patch_high, box_center, extend_low, extend_high) ==
    LowRamp(box_center - patch_low, extend_low)
        \o HighRamp(patch_high - box_center, extend_high)

\* minimum(wy[:, newaxis], wx[newaxis, :])
MinimumOuter(wy, wx) ==
    [y \in 1..Len(wy) |-> [x \in 1..Len(wx) |-> RMin(wy[y], wx[x])]]

\* ---------------------------------------------------------- StackFrames state
\* self.dim_y, self.dim_x and their drizzled counterparts.
DimY == align_frames.intersection_shape[1][2] - align_frames.intersection_shape[1][1]
DimX == align_frames.intersection_shape[2][2] - align_frames.intersection_shape[2][1]
DimYDrizzled == DimY * configuration.drizzle_factor
DimXDrizzled == DimX * configuration.drizzle_factor
NumberPixelsDrizzled == DimYDrizzled * DimXDrizzled

\* A value of the float32 buffer sum_single_frame_weights: std + eps * 1e-30,
\* where std is a rational and eps counts the 1.e-30 the buffer was filled
\* with.  Every weight added is 0 or a multiple of a fraction far above 1e-10,
\* so a value is below 1e-10 exactly when std <= 0.
Weight(std, eps) == [std |-> std, eps |-> eps]

\* Mutant of SentinelWeights: the buffer is filled with zeros.
ZeroWeights(h, w) == Full(h, w, Weight(RInt(0), 0))

\* full([dim_y_drizzled, dim_x_drizzled], 1.e-30, dtype=float32)
SentinelWeights(h, w) == Full(h, w, Weight(RInt(0), 1))

\* Mutant of BelowHoleThreshold: value < 1.
BelowOne(v) == RLess(v.std, RInt(1))

\* value < 1.e-10
BelowHoleThreshold(v) == RLeq(v.std, RInt(0))

\* value < threshold, for a threshold far above 1e-30
BelowThreshold(v, threshold) == RLess(v.std, threshold)

\* AlignmentPoints.initialize_ap_stacking_buffer: the drizzled coordinates of
\* an alignment point and its zero-filled stacking buffer.
InitializeApStackingBuffer(ap, drizzle_factor) ==
    [y |-> ap.y, x |-> ap.x,
     patch_y_low |-> ap.patch_y_low, patch_y_high |-> ap.patch_y_high,
     patch_x_low |-> ap.patch_x_low, patch_x_high |-> ap.patch_x_high,
     y_drizzled |-> ap.y * drizzle_factor,
     x_drizzled |-> ap.x * drizzle_factor,
     patch_y_low_drizzled |-> ap.patch_y_low * drizzle_factor,
     patch_y_high_drizzled |-> ap.patch_y_high * drizzle_factor,
     patch_x_low_drizzled |-> ap.patch_x_low * drizzle_factor,
     patch_x_high_drizzled |-> ap.patch_x_high * drizzle_factor,
     stacking_buffer |->
         Full((ap.patch_y_high - ap.patch_y_low) * drizzle_factor,
              (ap.patch_x_high - ap.patch_x_low) * drizzle_factor, RInt(0)),
     weights_yx |-> None]

\* An alignment point as AlignmentPoints creates it: the box centre (y, x)
\* and the half-open patch rectangle, in source coordinates.
AlignmentPoint(y, x, y_low, y_high, x_low, x_high) ==
    [y |-> y, x |-> x, patch_y_low |-> y_low, patch_y_high |-> y_high,
     patch_x_low |-> x_low, patch_x_high |-> x_high]

\* StackFrames.__init__, given the collaborators: the fields it sets.
StackFramesConstructed(conf, fr, al, aps, stack_size) ==
    /\ configuration = conf
    /\ frames = fr
    /\ align_frames = al
    /\ alignment_points =
           [stack_size |-> stack_size,
            alignment_points |->
                [a \in 1..Len(aps) |->
                    InitializeApStackingBuffer(aps[a], conf.drizzle_factor)]]
    /\ stacked_image_buffer = Full(DimYDrizzled, DimXDrizzled, RInt(0))
    /\ sum_single_frame_weights = SentinelWeights(DimYDrizzled, DimXDrizzled)
    /\ number_stacking_holes = None
    /\ averaged_background = None
    /\ background_patches = None
    /\ shift_distribution = None
    /\ shift_failure_counter = None
    /\ border_y_low = None
    /\ border_y_high = None
    /\ border_x_low = None
    /\ border_x_high = None
    /\ stacked_image = None
    /\ stack_pc = "constructed"
    /\ frame_index = None
    /\ ap_position = None
    /\ last_shift = None
    /\ success_patch_sum = None
    /\ failure_patch_sum = None
    /\ pairs_evaluated = 0
    /\ shift_log = {}

\* ------------------------------------------------ prepare_for_stack_blending
\* alignment_point['weights_yx']: the element-wise minimum of the y and x
\* ramps, which are constant 1 on a side where the patch touches the image
\* boundary.
WeightsYX(ap) ==
    MinimumOuter(
        OneDimWeight(ap.patch_y_low_drizzled, ap.patch_y_high_drizzled,
                     ap.y_drizzled, ap.patch_y_low_drizzled = 0,
                     ap.patch_y_high_drizzled = DimYDrizzled),
        OneDimWeight(ap.patch_x_low_drizzled, ap.patch_x_high_drizzled,
                     ap.x_drizzled, ap.patch_x_low_drizzled = 0,
                     ap.patch_x_high_drizzled = DimXDrizzled))

\* Mutant of WeightContribution: the weight is not multiplied by the stack size.
WeightContributionUnscaled(stack_size, weight) == weight

\* The amount added to a pixel of sum_single_frame_weights for one alignment
\* point: single_stack_size_float * weight.
WeightContribution(stack_size, weight) == RMul(RInt(stack_size), weight)

\* sum_single_frame_weights[y_low:y_high, x_low:x_high] += stack_size * weights
AddPatchWeights(sums, ap, weights, stack_size) ==
    [y \in 1..Rows(sums) |-> [x \in 1..Cols(sums) |->
        IF /\ ap.patch_y_low_drizzled < y /\ y <= ap.patch_y_high_drizzled
           /\ ap.patch_x_low_drizzled < x /\ x <= ap.patch_x_high_drizzled
        THEN Weight(RAdd(sums[y][x].std,
                         WeightContribution(stack_size,
                             weights[y - ap.patch_y_low_drizzled]
                                    [x - ap.patch_x_low_drizzled])),
                    sums[y][x].eps)
        ELSE sums[y][x]]]

\* The loop over all alignment points, from the a-th one on.
RECURSIVE AddAllPatchWeights(_, _, _, _)
AddAllPatchWeights(sums, aps, a, stack_size) ==
    IF a > Len(aps) THEN sums
    ELSE AddAllPatchWeights(
             AddPatchWeights(sums, aps[a], WeightsYX(aps[a]), stack_size),
             aps, a + 1, stack_size)

\* count_nonzero(array[y_low:y_high, x_low:x_high] satisfies P), 0-based bounds.
CountBelow(sums, y_low, y_high, x_low, x_high, threshold) ==
    Cardinality({c \in ((y_low + 1)..y_high) \X ((x_low + 1)..x_high) :
                    BelowThreshold(sums[c[1]][c[2]], threshold)})

\* count_nonzero(self.sum_single_frame_weights < 1.e-10)
CountHoles(sums) ==
    Cardinality({c \in (1..Rows(sums)) \X (1..Cols(sums)) :
                    BelowHoleThreshold(sums[c[1]][c[2]])})

\* stack_frames_background_blend_threshold * single_stack_size_float
BlendThreshold ==
    RMul(configuration.stack_frames_background_blend_threshold,
         RInt(alignment_points.stack_size))

\* The upper bound of the background patch starting at low, along a dimension
\* of size dim: min(low + patch_size, dim - 1).
BackgroundPatchHigh(low, dim) ==
    Min(low + configuration.stack_frames_background_patch_size, dim - 1)

\* range(0, dim, stack_frames_background_patch_size)
PatchLows(dim) ==
    LET size == configuration.stack_frames_background_patch_size
    IN  [j \in 1..((dim + size - 1) \div size) |-> (j - 1) * size]

\* The background patches the two nested loops visit, in order: those of
\* non-zero size in both directions.
CandidateBackgroundPatches ==
    LET ys == PatchLows(DimY)
        xs == PatchLows(DimX)
        all == [j \in 1..(Len(ys) * Len(xs)) |->
                  [patch_y_low |-> ys[((j - 1) \div Len(xs)) + 1],
                   patch_y_high |->
                       BackgroundPatchHigh(ys[((j - 1) \div Len(xs)) + 1], DimY),
                   patch_x_low |-> xs[((j - 1) % Len(xs)) + 1],
                   patch_x_high |->
                       BackgroundPatchHigh(xs[((j - 1) % Len(xs)) + 1], DimX)]]
    IN  SelectSeq(all, LAMBDA t : t.patch_y_low # t.patch_y_high
                                  /\ t.patch_x_low # t.patch_x_high)

\* Whether a background patch contains a pixel where the background is used.
PatchNeedsBackground(sums, t) ==
    CountBelow(sums,
               t.patch_y_low * configuration.drizzle_factor,
               t.patch_y_high * configuration.drizzle_factor,
               t.patch_x_low * configuration.drizzle_factor,
               t.patch_x_high * configuration.drizzle_factor,
               BlendThreshold) > 0

\* Whether the background is computed patch by patch:
\* points_where_background_used / number_pixels_drizzled < fraction.
PerPatchBackground(sums) ==
    RLess(Rat(CountBelow(sums, 0, Rows(sums), 0, Cols(sums), BlendThreshold),
              NumberPixelsDrizzled),
          configuration.stack_frames_background_fraction)

\* Mutant of BackgroundNeeded: a single hole needs no background.
BackgroundNeededForSeveralHoles(holes) == holes > 1

\* Whether a background image is needed: number_stacking_holes # 0.
BackgroundNeeded(holes) == holes # 0

\* prepare_for_stack_blending: the values it gives
\* <<alignment points with weights_yx, sum_single_frame_weights,
\*   number_stacking_holes, averaged_background, background_patches>>.
PrepareForStackBlending ==
    LET aps == alignment_points.alignment_points
        weighted == [a \in 1..Len(aps) |->
                        [aps[a] EXCEPT !.weights_yx = Some(WeightsYX(aps[a]))]]
        sums == AddAllPatchWeights(sum_single_frame_weights, aps, 1,
                                   alignment_points.stack_size)
        holes == CountHoles(sums)
    IN  IF ~BackgroundNeeded(holes)
        THEN <<weighted, sums, Some(holes), averaged_background,
               background_patches>>
        ELSE <<weighted, sums, Some(holes), Some(Full(DimY, DimX, RInt(0))),
               IF PerPatchBackground(sums)
               THEN Some(SelectSeq(CandidateBackgroundPatches,
                                   LAMBDA t : PatchNeedsBackground(sums, t)))
               ELSE background_patches>>

\* ------------------------------------------------------------- frame access
\* statistics.median of a list of rationals.
RECURSIVE InsertAscending(_, _)
InsertAscending(sortedList, v) ==
    IF sortedList = <<>> THEN <<v>>
    ELSE IF RLess(v, Head(sortedList)) THEN <<v>> \o sortedList
    ELSE <<Head(sortedList)>> \o InsertAscending(Tail(sortedList), v)

RECURSIVE SortedAscending(_)
SortedAscending(list) ==
    IF list = <<>> THEN <<>>
    ELSE InsertAscending(SortedAscending(Tail(list)), Head(list))

Median(list) ==
    LET sortedList == SortedAscending(list)
        n == Len(list)
    IN  IF n % 2 = 1 THEN sortedList[(n + 1) \div 2]
        ELSE RDiv(RAdd(sortedList[n \div 2], sortedList[(n \div 2) + 1]), RInt(2))

\* The frame stack_frames works on: frames.frames(frame_index), scaled by
\* median_brightness / (average_brightness + 1.e-7) if brightness
\* normalization is switched on.  Pixels are rationals; the 1.e-7, far below
\* the resolution of the output, is left out.
Frame(i) ==
    LET data == At(frames.data, i)
        factor == IF configuration.frames_normalization
                  THEN RDiv(Median(frames.average_brightness),
                            At(frames.average_brightness, i))
                  ELSE RInt(1)
    IN  [y \in 1..Rows(data) |-> [x \in 1..Cols(data) |->
            RMul(RInt(data[y][x]), factor)]]

\* floor of the rational q.
Floor(q) == q[1] \div q[2]

\* cv2.resize along one dimension, enlarging n source pixels by an integer
\* factor: the source coordinate of destination pixel X is
\* (X + 0.5) / factor - 0.5, and tap indices are clamped to 0 .. n - 1.
SourceCoordinate(X, factor) == Rat(2 * X + 1 - factor, 2 * factor)
Clamp(j, n) == Max(0, Min(j, n - 1))

\* INTER_LINEAR: the taps <<source index, weight>> of destination pixel X.
LinearTaps(X, factor, n) ==
    LET pos == SourceCoordinate(X, factor)
        x0 == Floor(pos)
        t == RSub(pos, RInt(x0))
    IN  <<<<Clamp(x0, n), RSub(RInt(1), t)>>, <<Clamp(x0 + 1, n), t>>>>

\* INTER_CUBIC (coefficient A = -3/4): the four taps of destination pixel X.
CubicTaps(X, factor, n) ==
    LET pos == SourceCoordinate(X, factor)
        x0 == Floor(pos)
        t == RSub(pos, RInt(x0))
        A == Rat(-3, 4)
        one == RInt(1)
        u == RAdd(t, one)
        v == RSub(one, t)
        w0 == RSub(RMul(RAdd(RMul(RSub(RMul(A, u), RMul(RInt(5), A)), u),
                             RMul(RInt(8), A)), u),
                   RMul(RInt(4), A))
        w1 == RAdd(RMul(RMul(RSub(RMul(RAdd(A, RInt(2)), t), RAdd(A, RInt(3))),
                             t), t), one)
        w2 == RAdd(RMul(RMul(RSub(RMul(RAdd(A, RInt(2)), v), RAdd(A, RInt(3))),
                             v), v), one)
        w3 == RSub(RSub(RSub(one, w0), w1), w2)
    IN  <<<<Clamp(x0 - 1, n), w0>>, <<Clamp(x0, n), w1>>,
          <<Clamp(x0 + 1, n), w2>>, <<Clamp(x0 + 2, n), w3>>>>

\* The taps of destination pixel X for the given interpolation.
Taps(interpolation, X, factor, n) ==
    IF interpolation = "INTER_LINEAR" THEN LinearTaps(X, factor, n)
    ELSE CubicTaps(X, factor, n)

\* The taps applied to a line of source pixels.
RECURSIVE TapSum(_, _, _)
TapSum(taps, j, line) ==
    IF j > Len(taps) THEN RInt(0)
    ELSE RAdd(RMul(taps[j][2], At(line, taps[j][1])), TapSum(taps, j + 1, line))

\* A line of n source pixels enlarged by the factor.
ResizeLine(line, factor, interpolation) ==
    [X \in 1..(Len(line) * factor) |->
        TapSum(Taps(interpolation, X - 1, factor, Len(line)), 1, line)]

\* cv2.resize(image, (width * factor, height * factor), interpolation): every
\* row is enlarged, then every column.
Resize(image, factor, interpolation) ==
    LET wide == [y \in 1..Rows(image) |->
                    ResizeLine(image[y], factor, interpolation)]
    IN  [Y \in 1..(Rows(image) * factor) |-> [X \in 1..Cols(wide) |->
            TapSum(Taps(interpolation, Y - 1, factor, Rows(image)), 1,
                   [y \in 1..Rows(image) |-> wide[y][X]])]]

\* self.frame_drizzled: the frame as float32, interpolated (INTER_LINEAR) to
\* the drizzled size if drizzle is active.
FrameDrizzled(i) ==
    IF configuration.drizzle_factor # 1
    THEN Resize(Frame(i), configuration.drizzle_factor, "INTER_LINEAR")
    ELSE Frame(i)

\* ---------------------------------------------------------------- remap_rigid
\* Mutant of AddSlice: the source slice is stored in the target slice
\* instead of being added to it.
AddSliceAssign(target, ty, tx, source, sy, sx) ==
    LET th == ty[2] - ty[1]
        tw == tx[2] - tx[1]
        sh == sy[2] - sy[1]
        sw == sx[2] - sx[1]
        ok == (sh = th \/ sh = 1) /\ (sw = tw \/ sw = 1)
    IN  [ok |-> ok,
         array |->
            IF ~ok THEN target
            ELSE [y \in 1..Rows(target) |-> [x \in 1..Cols(target) |->
                    IF /\ ty[1] < y /\ y <= ty[2]
                       /\ tx[1] < x /\ x <= tx[2]
                    THEN source[sy[1] + (IF sh = 1 THEN 1 ELSE y - ty[1])]
                               [sx[1] + (IF sw = 1 THEN 1 ELSE x - tx[1])]
                    ELSE target[y][x]]]]

\* target[ty[1]:ty[2], tx[1]:tx[2]] += source[sy[1]:sy[2], sx[1]:sx[2]] for
\* slice bounds already resolved by PySlice.  numpy adds when every source
\* extent equals the target's or is 1 (it is then repeated), and raises
\* ValueError otherwise: [ok |-> whether it adds, array |-> the result].
AddSlice(target, ty, tx, source, sy, sx) ==
    LET th == ty[2] - ty[1]
        tw == tx[2] - tx[1]
        sh == sy[2] - sy[1]
        sw == sx[2] - sx[1]
        ok == (sh = th \/ sh = 1) /\ (sw = tw \/ sw = 1)
    IN  [ok |-> ok,
         array |->
            IF ~ok THEN target
            ELSE [y \in 1..Rows(target) |-> [x \in 1..Cols(target) |->
                    IF /\ ty[1] < y /\ y <= ty[2]
                       /\ tx[1] < x /\ x <= tx[2]
                    THEN RAdd(target[y][x],
                              source[sy[1] + (IF sh = 1 THEN 1 ELSE y - ty[1])]
                                    [sx[1] + (IF sw = 1 THEN 1 ELSE x - tx[1])])
                    ELSE target[y][x]]]]

\* Mutant of RemapBounds: the clips add up in the border widths.
RemapBoundsSumClips(low, high, shift, frame_size, border_low, border_high) ==
    LET low_source == low + shift
        high_source == high + shift
        clipLow == low_source < 0
        clipHigh == high_source > frame_size
        low_source2 == IF clipLow THEN 0 ELSE low_source
        low_target == IF clipLow THEN -low_source ELSE 0
        high_source2 == IF clipHigh THEN frame_size ELSE high_source
    IN  [low_source |-> low_source2,
         high_source |-> high_source2,
         low_target |-> low_target,
         high_target |-> low_target + high_source2 - low_source2,
         border_low |-> IF clipLow THEN border_low + low_target
                        ELSE border_low,
         border_high |-> IF clipHigh
                         THEN border_high + high_source - frame_size
                         ELSE border_high]

\* Mutant of RemapBounds: a border width is overwritten by the latest clip
\* instead of being raised to it.
RemapBoundsLastClip(low, high, shift, frame_size, border_low, border_high) ==
    LET low_source == low + shift
        high_source == high + shift
        clipLow == low_source < 0
        clipHigh == high_source > frame_size
        low_source2 == IF clipLow THEN 0 ELSE low_source
        low_target == IF clipLow THEN -low_source ELSE 0
        high_source2 == IF clipHigh THEN frame_size ELSE high_source
    IN  [low_source |-> low_source2,
         high_source |-> high_source2,
         low_target |-> low_target,
         high_target |-> low_target + high_source2 - low_source2,
         border_low |-> IF clipLow THEN low_target ELSE border_low,
         border_high |-> IF clipHigh THEN high_source - frame_size
                         ELSE border_high]

\* The index bounds remap_rigid computes along one direction:
\* [low_source, high_source, low_target, high_target, border_low, border_high],
\* given the border widths found so far.
RemapBounds(low, high, shift, frame_size, border_low, border_high) ==
    LET low_source == low + shift
        high_source == high + shift
        clipLow == low_source < 0
        clipHigh == high_source > frame_size
        low_source2 == IF clipLow THEN 0 ELSE low_source
        low_target == IF clipLow THEN -low_source ELSE 0
        high_source2 == IF clipHigh THEN frame_size ELSE high_source
    IN  [low_source |-> low_source2,
         high_source |-> high_source2,
         low_target |-> low_target,
         high_target |-> low_target + high_source2 - low_source2,
         border_low |-> IF clipLow THEN Max(border_low, low_target)
                        ELSE border_low,
         border_high |-> IF clipHigh
                         THEN Max(border_high, high_source - frame_size)
                         ELSE border_high]

\* remap_rigid(frame, buffer, shift_y, shift_x, y_low, y_high, x_low, x_high),
\* entered with the border widths borders = <<y_low, y_high, x_low, x_high>>:
\* [ok, buffer, borders] after the call.
RemapRigid(frame, buffer, shift_y, shift_x, y_low, y_high, x_low, x_high, borders) ==
    LET by == RemapBounds(y_low, y_high, shift_y, Rows(frame), borders[1],
                          borders[2])
        bx == RemapBounds(x_low, x_high, shift_x, Cols(frame), borders[3],
                          borders[4])
        added == AddSlice(buffer,
                          PySlice(by.low_target, by.high_target, Rows(buffer)),
                          PySlice(bx.low_target, bx.high_target, Cols(buffer)),
                          frame,
                          PySlice(by.low_source, by.high_source, Rows(frame)),
                          PySlice(bx.low_source, bx.high_source, Cols(frame)))
    IN  [ok |-> added.ok,
         buffer |-> added.array,
         borders |-> <<by.border_low, by.border_high,
                       bx.border_low, bx.border_high>>]

\* ---------------------------------------------------------------- stack_frames
\* The results compute_shift_alignment_point may return, as
\* <<shift_y, shift_x, success>>: a shift within the search width, found or
\* not, in whole pixels or, with subpixel_solve (drizzle active), in
\* fractions 1 / drizzle_factor of a pixel; without de-warping the zero
\* shift, found.
ShiftResults ==
    IF configuration.alignment_points_de_warp
    THEN LET D == configuration.drizzle_factor
             width == configuration.alignment_points_search_width * D
         IN  {<<Rat(s[1], D), Rat(s[2], D), s[3]>> :
                 s \in ((-width)..width) \X ((-width)..width) \X BOOLEAN}
    ELSE {<<RInt(0), RInt(0), TRUE>>}

\* int(round(shift * drizzle_factor))
ShiftDrizzled(shift, drizzle_factor) ==
    LET product == RMul(shift, RInt(drizzle_factor))
    IN  RoundHalfEven(product[1], product[2])

\* The loop variable frame_index of the loop over all frames, in the pass
\* the loop is in.
CurrentFrame == At(frame_order, Val(frame_index))

\* self.frames.used_alignment_points[frame_index]
UsedAlignmentPoints(i) == At(frames.used_alignment_points, i)

\* The first part of stack_frames, up to the loop over all frames.
StackFramesBegin ==
    /\ stack_pc = "constructed"
    /\ LET prepared == PrepareForStackBlending
       IN  /\ alignment_points' =
                  [alignment_points EXCEPT !.alignment_points = prepared[1]]
           /\ sum_single_frame_weights' = prepared[2]
           /\ number_stacking_holes' = prepared[3]
           /\ averaged_background' = prepared[4]
           /\ background_patches' = prepared[5]
    /\ shift_distribution' =
           Some([j \in 1..(configuration.alignment_points_search_width
                           * configuration.drizzle_factor * 2) |-> 0])
    /\ shift_failure_counter' = Some(0)
    /\ border_y_low' = Some(0)
    /\ border_y_high' = Some(0)
    /\ border_x_low' = Some(0)
    /\ border_x_high' = Some(0)
    /\ frame_index' = Some(0)
    /\ ap_position' = Some(0)
    /\ stack_pc' = "stacking"
    /\ success_patch_sum' =
           Some([a \in 1..Len(alignment_points.alignment_points) |->
                    alignment_points.alignment_points[a].stacking_buffer])
    /\ failure_patch_sum' = success_patch_sum'
    /\ UNCHANGED <<configuration, frames, align_frames, stacked_image_buffer,
                   stacked_image, last_shift, pairs_evaluated, frame_order,
                   shift_log>>

\* The histogram after one evaluation: the bin of the rounded shift length is
\* incremented if the shift was found.
CountShift(distribution, shift_y_drizzled, shift_x_drizzled, success) ==
    LET bin == RoundSqrt(shift_y_drizzled * shift_y_drizzled
                         + shift_x_drizzled * shift_x_drizzled)
    IN  IF success
        THEN [distribution EXCEPT ![bin + 1] = distribution[bin + 1] + 1]
        ELSE distribution

\* Mutant of CountFailure: a shift not found is not counted.
CountFailureNever(counter, success) == counter

\* The failure counter after one evaluation.
CountFailure(counter, success) == IF success THEN counter ELSE counter + 1

\* Mutant of RemapCalled: remap_rigid is called only for a shift that was found.
RemapOnlyOnSuccess(success) == success

\* Whether stack_frames adds the frame to the alignment point's stacking
\* buffer: it calls remap_rigid whatever compute_shift_alignment_point found.
RemapCalled(success) == TRUE

\* The frame pixel remap_rigid is to add to buffer cell (by, bx) of an
\* alignment point for the total shift: the pixel at
\* (y_low + shift_y + by, x_low + shift_x + bx), or 0 outside the frame.
ShiftedPixel(frame, ap, shift_y, shift_x, by, bx) ==
    LET y == ap.patch_y_low_drizzled + shift_y + by
        x == ap.patch_x_low_drizzled + shift_x + bx
    IN  IF 0 <= y /\ y < Rows(frame) /\ 0 <= x /\ x < Cols(frame)
        THEN At(At(frame, y), x) ELSE RInt(0)

\* The per alignment point sums with the shifted patch of the frame added to
\* the sum of the alignment point with the given index.
AddShiftedPatch(sums, alignment_point_index, frame, ap, shift_y, shift_x) ==
    [sums EXCEPT ![alignment_point_index + 1] =
        [by \in 1..Rows(@) |-> [bx \in 1..Cols(@) |->
            RAdd(@[by][bx],
                 ShiftedPixel(frame, ap, shift_y, shift_x, by - 1, bx - 1))]]]

\* One pass of the loop over the alignment points of the current frame, for
\* the result <<shift_y, shift_x, success>> of compute_shift_alignment_point.
StackAlignmentPoint(result) ==
    /\ stack_pc = "stacking"
    /\ Val(frame_index) < frames.number
    /\ Val(ap_position) < Len(UsedAlignmentPoints(CurrentFrame))
    /\ \E frame_drizzled \in {FrameDrizzled(CurrentFrame)} :
       LET alignment_point_index ==
               At(UsedAlignmentPoints(CurrentFrame), Val(ap_position))
           alignment_point ==
               At(alignment_points.alignment_points, alignment_point_index)
           D == configuration.drizzle_factor
           dy == At(align_frames.dy, CurrentFrame)
           dx == At(align_frames.dx, CurrentFrame)
           shift_y_drizzled == ShiftDrizzled(result[1], D)
           shift_x_drizzled == ShiftDrizzled(result[2], D)
           total_shift_y_drizzled == dy * D - shift_y_drizzled
           total_shift_x_drizzled == dx * D - shift_x_drizzled
           success == result[3]
       IN  /\ shift_distribution' =
                  Some(CountShift(Val(shift_distribution), shift_y_drizzled,
                                  shift_x_drizzled, success))
           /\ shift_failure_counter' =
                  Some(CountFailure(Val(shift_failure_counter), success))
           /\ last_shift' =
                  Some([frame_index |-> CurrentFrame,
                        alignment_point_index |-> alignment_point_index,
                        shift_y_drizzled |-> shift_y_drizzled,
                        shift_x_drizzled |-> shift_x_drizzled,
                        success |-> success])
           /\ IF ~RemapCalled(success)
              THEN UNCHANGED <<alignment_points, border_y_low, border_y_high,
                               border_x_low, border_x_high, stack_pc>>
              ELSE \E remapped \in
                       {RemapRigid(frame_drizzled, alignment_point.stacking_buffer,
                                   total_shift_y_drizzled, total_shift_x_drizzled,
                                   alignment_point.patch_y_low_drizzled,
                                   alignment_point.patch_y_high_drizzled,
                                   alignment_point.patch_x_low_drizzled,
                                   alignment_point.patch_x_high_drizzled,
                                   <<Val(border_y_low), Val(border_y_high),
                                     Val(border_x_low), Val(border_x_high)>>)} :
                   /\ alignment_points' =
                          [alignment_points EXCEPT
                              !.alignment_points[alignment_point_index + 1]
                                  .stacking_buffer = remapped.buffer]
                   /\ border_y_low' = Some(remapped.borders[1])
                   /\ border_y_high' = Some(remapped.borders[2])
                   /\ border_x_low' = Some(remapped.borders[3])
                   /\ border_x_high' = Some(remapped.borders[4])
                   /\ stack_pc' = IF remapped.ok THEN "stacking" ELSE "ValueError"
           /\ success_patch_sum' =
                  IF success
                  THEN Some(AddShiftedPatch(Val(success_patch_sum),
                                alignment_point_index, frame_drizzled,
                                alignment_point, total_shift_y_drizzled,
                                total_shift_x_drizzled))
                  ELSE success_patch_sum
           /\ failure_patch_sum' =
                  IF success THEN failure_patch_sum
                  ELSE Some(AddShiftedPatch(Val(failure_patch_sum),
                                alignment_point_index, frame_drizzled,
                                alignment_point, total_shift_y_drizzled,
                                total_shift_x_drizzled))
    /\ ap_position' = Some(Val(ap_position) + 1)
    /\ pairs_evaluated' = pairs_evaluated + 1
    /\ shift_log' = shift_log \cup
           {[frame_index |-> CurrentFrame,
             alignment_point_index |->
                 At(UsedAlignmentPoints(CurrentFrame), Val(ap_position)),
             result |-> result]}
    /\ UNCHANGED <<configuration, frames, align_frames, stacked_image_buffer,
                   sum_single_frame_weights, number_stacking_holes,
                   averaged_background, background_patches, stacked_image,
                   frame_index, frame_order>>

\* self.averaged_background after the contributions of the frame for the
\* background patches from the j-th one on: [ok, array].
RECURSIVE AddBackgroundPatches(_, _, _, _, _, _)
AddBackgroundPatches(background, patches, j, frame, dy, dx) ==
    IF j > Len(patches) THEN [ok |-> TRUE, array |-> background]
    ELSE LET patch == patches[j]
             added ==
                 AddSlice(background,
                          PySlice(patch.patch_y_low, patch.patch_y_high,
                                  Rows(background)),
                          PySlice(patch.patch_x_low, patch.patch_x_high,
                                  Cols(background)),
                          frame,
                          PySlice(patch.patch_y_low + dy, patch.patch_y_high + dy,
                                  Rows(frame)),
                          PySlice(patch.patch_x_low + dx, patch.patch_x_high + dx,
                                  Cols(frame)))
         IN  IF added.ok
             THEN AddBackgroundPatches(added.array, patches, j + 1, frame, dy, dx)
             ELSE [ok |-> FALSE, array |-> background]

\* self.averaged_background += frame[dy:self.dim_y + dy, dx:self.dim_x + dx]
AddFullBackground(background, frame, dy, dx) ==
    AddSlice(background, <<0, Rows(background)>>, <<0, Cols(background)>>,
             frame, PySlice(dy, DimY + dy, Rows(frame)),
             PySlice(dx, DimX + dx, Cols(frame)))

\* Mutant of AmongBestFrames: every frame counts as one of the best.
AmongAllFrames(i) == TRUE

\* frame_index in self.rank_frames.quality_sorted_indices[:stack_size]
AmongBestFrames(i) ==
    \E j \in 1..Min(alignment_points.stack_size, Len(Val(quality_sorted_indices))) :
        Val(quality_sorted_indices)[j] = i

\* Whether the frame contributes to the averaged background.
FrameAddsBackground(i) ==
    Val(number_stacking_holes) > 0 /\ AmongBestFrames(i)

\* The end of the loop body for the current frame: its contribution to the
\* averaged background, if any, and the step to the next frame.
StackFrameBackground ==
    /\ stack_pc = "stacking"
    /\ Val(frame_index) < frames.number
    /\ Val(ap_position) = Len(UsedAlignmentPoints(CurrentFrame))
    /\ IF FrameAddsBackground(CurrentFrame)
       THEN \E frame \in {Frame(CurrentFrame)} :
            LET dy == At(align_frames.dy, CurrentFrame)
                dx == At(align_frames.dx, CurrentFrame)
            IN  \E added \in
                    {IF background_patches # None /\ Val(background_patches) # <<>>
                     THEN AddBackgroundPatches(Val(averaged_background),
                              Val(background_patches), 1, frame, dy, dx)
                     ELSE AddFullBackground(Val(averaged_background), frame,
                                            dy, dx)} :
                    /\ averaged_background' = Some(added.array)
                    /\ stack_pc' = IF added.ok THEN "stacking" ELSE "ValueError"
       ELSE UNCHANGED <<averaged_background, stack_pc>>
    /\ frame_index' = Some(Val(frame_index) + 1)
    /\ ap_position' = Some(0)
    /\ UNCHANGED <<configuration, frames, align_frames, alignment_points,
                   stacked_image_buffer, sum_single_frame_weights,
                   number_stacking_holes, background_patches,
                   shift_distribution, shift_failure_counter, border_y_low,
                   border_y_high, border_x_low, border_x_high, stacked_image,
                   last_shift, success_patch_sum, failure_patch_sum,
                   pairs_evaluated, frame_order, shift_log>>

\* array / divisor, element by element.
DivideAll(array, divisor) ==
    [y \in 1..Rows(array) |-> [x \in 1..Cols(array) |->
        RDiv(array[y][x], RInt(divisor))]]

\* The part of stack_frames after the loop over all frames: the background is
\* extended into drizzled coordinates and normalized.
StackFramesEnd ==
    /\ stack_pc = "stacking"
    /\ Val(frame_index) = frames.number
    /\ averaged_background' =
           IF Val(number_stacking_holes) > 0
           THEN Some(DivideAll(
                    IF configuration.drizzle_factor # 1
                    THEN Resize(Val(averaged_background),
                                configuration.drizzle_factor, "INTER_CUBIC")
                    ELSE Val(averaged_background),
                    alignment_points.stack_size))
           ELSE averaged_background
    /\ stack_pc' = "stacked"
    /\ UNCHANGED <<configuration, frames, align_frames, alignment_points,
                   stacked_image_buffer, sum_single_frame_weights,
                   number_stacking_holes, background_patches,
                   shift_distribution, shift_failure_counter, border_y_low,
                   border_y_high, border_x_low, border_x_high, stacked_image,
                   frame_index, ap_position, last_shift, success_patch_sum,
                   failure_patch_sum, pairs_evaluated, frame_order, shift_log>>

\* ---------------------------------------------- merge_alignment_point_buffers
\* What the loop over all alignment points, from the a-th one on, adds to
\* pixel (y, x) of stacked_image_buffer:
\* stacked_image_buffer[patch] += stacking_buffer * weights_yx
RECURSIVE WeightedBufferSum(_, _, _, _)
WeightedBufferSum(aps, a, y, x) ==
    IF a > Len(aps) THEN RInt(0)
    ELSE LET ap == aps[a]
         IN  IF /\ ap.patch_y_low_drizzled < y /\ y <= ap.patch_y_high_drizzled
                /\ ap.patch_x_low_drizzled < x /\ x <= ap.patch_x_high_drizzled
             THEN RAdd(RMul(ap.stacking_buffer[y - ap.patch_y_low_drizzled]
                                              [x - ap.patch_x_low_drizzled],
                            Val(ap.weights_yx)[y - ap.patch_y_low_drizzled]
                                              [x - ap.patch_x_low_drizzled]),
                       WeightedBufferSum(aps, a + 1, y, x))
             ELSE WeightedBufferSum(aps, a + 1, y, x)

\* The float32 quotient of a buffer value and std + eps * 1e-30: where
\* std = 0 and the sentinel is there, 0 / 1e-30 = 0 and any other value leaves
\* every image range; without the sentinel the division is by zero.
Overflow == RInt(1000000)
DivideByWeight(value, weight) ==
    IF weight.std # RInt(0) THEN RDiv(value, weight.std)
    ELSE IF value = RInt(0) /\ weight.eps > 0 THEN RInt(0)
    ELSE Overflow

\* clip(value, 0., 1.)
ClipUnit(value) ==
    IF RLess(value, RInt(0)) THEN RInt(0)
    ELSE IF RLess(RInt(1), value) THEN RInt(1) ELSE value

\* sum_single_frame_weights / (blend_threshold * stack_size), clipped to [0, 1]
ForegroundWeight(weight) == ClipUnit(RDiv(weight.std, BlendThreshold))

\* (stacked - background) * foreground_weight + background
Blend(stacked, background, foreground_weight) ==
    RAdd(RMul(RSub(stacked, background), foreground_weight), background)

\* The rows and columns left when the border areas are cut off, as the
\* resolved slices <<start, stop>>: the whole buffer if no border was found.
TrimSlices(y_low, y_high, x_low, x_high) ==
    IF y_low # 0 \/ y_high # 0 \/ x_low # 0 \/ x_high # 0
    THEN <<PySlice(y_low, DimYDrizzled - y_high, DimYDrizzled),
           PySlice(x_low, DimXDrizzled - x_high, DimXDrizzled)>>
    ELSE <<<<0, DimYDrizzled>>, <<0, DimXDrizzled>>>>

\* The full scale of the input: 255 for 8 bit frames, 65535 otherwise.
FullScale(depth) == IF depth = 8 THEN 255 ELSE 65535

\* Mutant of ScaleToUnit: the scaled value is not clipped.
ScaleToUnitUnclipped(value, depth) == RDiv(value, RInt(FullScale(depth)))

\* clip(value / full_scale, 0., 1.)
ScaleToUnit(value, depth) == ClipUnit(RDiv(value, RInt(FullScale(depth))))

\* img_as_uint of a value in [0, 1]: the 16 bit output value.
ImgAsUint(unit) == RoundHalfEven(unit[1] * 65535, unit[2])

\* Pixel (y, x) of stacked_image_buffer after the alignment point buffers are
\* added, the sum is divided by the weights and blended with the background.
MergedPixel(y, x) ==
    LET normalized ==
            DivideByWeight(
                RAdd(stacked_image_buffer[y][x],
                     WeightedBufferSum(alignment_points.alignment_points, 1, y, x)),
                sum_single_frame_weights[y][x])
    IN  IF Val(number_stacking_holes) > 0
        THEN Blend(normalized, Val(averaged_background)[y][x],
                   ForegroundWeight(sum_single_frame_weights[y][x]))
        ELSE normalized

\* merge_alignment_point_buffers.
MergeAlignmentPointBuffers ==
    /\ stack_pc = "stacked"
    /\ LET kept == TrimSlices(Val(border_y_low), Val(border_y_high),
                              Val(border_x_low), Val(border_x_high))
       IN  stacked_image_buffer' =
               [y \in 1..(kept[1][2] - kept[1][1]) |->
                   [x \in 1..(kept[2][2] - kept[2][1]) |->
                       ScaleToUnit(MergedPixel(kept[1][1] + y, kept[2][1] + x),
                                   frames.depth)]]
    /\ stacked_image' =
           Some([y \in 1..Rows(stacked_image_buffer') |->
                    [x \in 1..Cols(stacked_image_buffer') |->
                        ImgAsUint(stacked_image_buffer'[y][x])]])
    /\ stack_pc' = "merged"
    /\ UNCHANGED <<configuration, frames, align_frames, alignment_points,
                   sum_single_frame_weights, number_stacking_holes,
                   averaged_background, background_patches, shift_distribution,
                   shift_failure_counter, border_y_low, border_y_high,
                   border_x_low, border_x_high, frame_index, ap_position,
                   last_shift, success_patch_sum, failure_patch_sum,
                   pairs_evaluated, frame_order, shift_log>>

\* ------------------------------------------------------- the stacking inputs
\* The rank engine after frame_score has run on the given raw scores.
RankFramesScored(scores) ==
    LET ranks == [j \in 1..Len(scores) |-> RInt(scores[j])]
        sortedIdx == QualitySortedIndices(ranks, Len(scores))
        inverse == InverseIndices(sortedIdx, Len(scores))
        maxIndex == At(sortedIdx, 0)
        maxValue == At(ranks, maxIndex)
        normalized == Normalize(ranks, maxValue)
    IN  /\ raw_scores = scores
        /\ rank_frames_method = "Laplace"
        /\ frames_index_translation_active = FALSE
        /\ number_original = Len(scores)
        /\ frame_ranks_original = normalized
        /\ quality_sorted_indices_original = Some(sortedIdx)
        /\ rank_indices_original = Some(inverse)
        /\ frame_ranks_max_index_original = Some(maxIndex)
        /\ frame_ranks_max_value_original = Some(maxValue)
        /\ number = Some(Len(scores))
        /\ frame_ranks = Some(normalized)
        /\ quality_sorted_indices = Some(sortedIdx)
        /\ rank_indices = Some(inverse)
        /\ frame_ranks_max_index = Some(maxIndex)
        /\ frame_ranks_max_value = Some(maxValue)
        /\ rank_call = Call("frame_score", None, None, None, None, None, None,
                            None)
        /\ translation_applied = FALSE

\* Frames of ImageSize x ImageSize pixels: of one brightness, with a
\* different value at every pixel, and dark with one bright pixel.
ConstantFrame(v) == Full(ImageSize, ImageSize, v)
PositionCodedFrame(base) ==
    [y \in 1..ImageSize |-> [x \in 1..ImageSize |->
        base + 10 * ((y - 1) * ImageSize + x)]]
SpikeFrame ==
    [y \in 1..ImageSize |-> [x \in 1..ImageSize |->
        IF y = 1 /\ x = 1 THEN ImageSize * ImageSize ELSE 0]]

\* frames.average_brightness(index): the mean pixel value of the frame.
MeanBrightness(data) ==
    Rat(ISum([y \in 1..Rows(data) |-> ISum(data[y])]), Rows(data) * Cols(data))

\* The frame source: monochrome frames of the given bit depth, and for every
\* frame the indices of the alignment points it is used at.
FrameSource(data, depth, used) ==
    [number |-> Len(data), depth |-> depth, color |-> FALSE, data |-> data,
     average_brightness |-> [i \in 1..Len(data) |-> MeanBrightness(data[i])],
     used_alignment_points |-> used]

\* The configuration parameters StackFrames reads.
Configuration(drizzle_factor, normalization, de_warp) ==
    [drizzle_factor |-> drizzle_factor,
     frames_normalization |-> normalization,
     alignment_points_de_warp |-> de_warp,
     alignment_points_search_width |-> MaxShift,
     stack_frames_background_blend_threshold |-> Rat(1, 5),
     stack_frames_background_fraction |-> Rat(3, 10),
     stack_frames_background_patch_size |-> 2]

\* Global alignment: every frame coincides with the intersection.
AlignFrames(n) ==
    [intersection_shape |-> <<<<0, ImageSize>>, <<0, ImageSize>>>>,
     dy |-> [i \in 1..n |-> 0], dx |-> [i \in 1..n |-> 0]]

\* Alignment point patches: the box centre is the middle of the patch.
Box(iy, ix) ==
    AlignmentPoint((iy[1] + iy[2]) \div 2, (ix[1] + ix[2]) \div 2,
                   iy[1], iy[2], ix[1], ix[2])
Whole == <<0, ImageSize>>
Upper == <<0, ImageSize - 1>>
Lower == <<1, ImageSize>>
FullCover == <<Box(Whole, Whole)>>
SingleLayouts == {<<Box(i[1], i[2])>> : i \in {Whole, Upper, Lower} \X {Whole, Upper, Lower}}
PairLayouts ==
    {<<Box(Upper, Whole), Box(Lower, Whole)>>,
     <<Box(Whole, Upper), Box(Upper, Whole)>>,
     <<Box(Whole, Lower), Box(Lower, Whole)>>,
     <<Box(Upper, Upper), Box(Lower, Lower)>>}

\* One input of the stacking workflow.
Setup(conf, data, depth, aps, stack_size, used) ==
    [conf |-> conf, frames |-> FrameSource(data, depth, used),
     align |-> AlignFrames(Len(data)), aps |-> aps, stack_size |-> stack_size,
     scores |-> [i \in 1..Len(data) |-> i]]

\* Two frames de-warped at one or two alignment points; every alignment
\* point is used by stack_size frames.
WarpedFrames == <<PositionCodedFrame(0), PositionCodedFrame(5)>>
WarpedSetups ==
    {Setup(Configuration(1, FALSE, TRUE), WarpedFrames, 8, aps, 1, used) :
        aps \in SingleLayouts, used \in {<<<<0>>, <<>>>>, <<<<>>, <<0>>>>}}
    \cup {Setup(Configuration(1, FALSE, TRUE), WarpedFrames, 8, aps, 2,
                <<<<0>>, <<0>>>>) :
            aps \in {FullCover, <<Box(Upper, Whole)>>, <<Box(Lower, Lower)>>}}
    \cup {Setup(Configuration(1, FALSE, TRUE), WarpedFrames, 8, aps, 1, used) :
            aps \in PairLayouts, used \in {<<<<0>>, <<1>>>>, <<<<0, 1>>, <<>>>>}}
    \cup {Setup(Configuration(2, FALSE, TRUE), WarpedFrames, 8, aps, 1,
                <<<<>>, <<0>>>>) :
            aps \in {FullCover, <<Box(Upper, Whole)>>}}

\* Frames stacked without de-warping at one alignment point covering the
\* frame, all of them used: frames of one brightness each, of 8 and 16 bit.
ConstantLevels == {10, 20, 30, 100, 200}
ConstantData ==
    {<<ConstantFrame(a), ConstantFrame(b)>> : a \in ConstantLevels, b \in ConstantLevels}
    \cup {<<ConstantFrame(v[1]), ConstantFrame(v[2]), ConstantFrame(v[3])>> :
            v \in {10, 20, 30} \X {10, 20, 30} \X {10, 20, 30}}
    \cup {WarpedFrames,
          <<PositionCodedFrame(0), PositionCodedFrame(5), PositionCodedFrame(7)>>}
UsedByAll(n) == [i \in 1..n |-> <<0>>]
RigidSetups ==
    {Setup(Configuration(1, FALSE, FALSE), data, depth, FullCover, Len(data),
           UsedByAll(Len(data))) :
        data \in ConstantData, depth \in {8, 16}}
    \cup {Setup(Configuration(1, TRUE, FALSE),
                <<SpikeFrame, ConstantFrame(199)>>, 8, FullCover, 2, UsedByAll(2)),
          Setup(Configuration(2, FALSE, FALSE), WarpedFrames, 8, FullCover, 2,
                UsedByAll(2))}

\* Two frames de-warped at one alignment point covering the frame, with a
\* search width of half the frame size, rounded up.
WideSearch(conf) ==
    [conf EXCEPT !.alignment_points_search_width = (ImageSize + 1) \div 2]
WideSearchSetups ==
    {Setup(WideSearch(Configuration(1, FALSE, TRUE)), WarpedFrames, 8, FullCover,
           2, UsedByAll(2))}

StackSetups == WarpedSetups \cup RigidSetups \cup WideSearchSetups

\* The state after frames are ranked and StackFrames is constructed.
StackInit ==
    \E setup \in StackSetups :
        /\ RankFramesScored(setup.scores)
        /\ StackFramesConstructed(setup.conf, setup.frames, setup.align,
                                  setup.aps, setup.stack_size)
        /\ frame_order = Range(0, setup.frames.number)
        /\ cancellation_flag = FALSE

\* The orderings of a list of distinct elements.
Orderings(list) ==
    {p \in [1..Len(list) -> {list[j] : j \in 1..Len(list)}] :
        {p[j] : j \in 1..Len(p)} = {list[j] : j \in 1..Len(list)}}

\* The lists of used alignment points with every frame's list in any order.
UsedOrderings(used) ==
    {u \in [1..Len(used) -> UNION {Orderings(used[i]) : i \in 1..Len(used)}] :
        \A i \in 1..Len(used) : u[i] \in Orderings(used[i])}

\* Inputs for stacking with the loops reordered: two frames de-warped at one
\* alignment point with a wide search, one frame de-warped at two alignment
\* points, and three frames stacked without de-warping at a patch that
\* leaves a part of the image to the background of the best two frames.
ReorderedSetups ==
    WideSearchSetups
    \cup {Setup(Configuration(1, FALSE, TRUE), WarpedFrames, 8,
                <<Box(Upper, Whole), Box(Lower, Whole)>>, 1, <<<<0, 1>>, <<>>>>),
          Setup(Configuration(1, FALSE, FALSE),
                <<PositionCodedFrame(0), PositionCodedFrame(5),
                  PositionCodedFrame(7)>>,
                8, <<Box(Upper, Whole)>>, 2, <<<<>>, <<0>>, <<0>>>>)}

\* The state after frames are ranked and StackFrames is constructed, for
\* stack_frames run with its loop over all frames in any order and, within a
\* frame, its loop over the alignment points in any order.
ReorderedInit ==
    \E setup \in ReorderedSetups :
        \E order \in Orderings(Range(0, setup.frames.number)),
           used \in UsedOrderings(setup.frames.used_alignment_points) :
            /\ RankFramesScored(setup.scores)
            /\ StackFramesConstructed(
                   setup.conf,
                   [setup.frames EXCEPT !.used_alignment_points = used],
                   setup.align, setup.aps, setup.stack_size)
            /\ frame_order = order
            /\ cancellation_flag = FALSE

\* ------------------------------------------------------------ specifications
vars == <<rank_vars, stack_vars, caller_vars>>

RankNext ==
    \/ FrameScore /\ UNCHANGED <<stack_vars, caller_vars>>
    \/ \E T \in IndexTranslations(number_original) :
           SetIndexTranslation(T) /\ UNCHANGED <<stack_vars, caller_vars>>
    \/ ResetIndexTranslation /\ UNCHANGED <<stack_vars, caller_vars>>
    \/ \E k \in 0..(number_original + 1), w \in 1..(number_original + 1) :
           FindBestFrames(k, w) /\ UNCHANGED <<stack_vars, caller_vars>>

SpecRank == RankInit /\ [][RankNext]_vars

StackNext ==
    \/ StackFramesBegin /\ UNCHANGED <<rank_vars, caller_vars>>
    \/ \E result \in ShiftResults :
           StackAlignmentPoint(result) /\ UNCHANGED <<rank_vars, caller_vars>>
    \/ StackFrameBackground /\ UNCHANGED <<rank_vars, caller_vars>>
    \/ StackFramesEnd /\ UNCHANGED <<rank_vars, caller_vars>>
    \/ MergeAlignmentPointBuffers /\ UNCHANGED <<rank_vars, caller_vars>>

SpecStack == StackInit /\ [][StackNext]_vars

\* stack_frames with its loops run in any order.
SpecStackReordered == ReorderedInit /\ [][StackNext]_vars

\* Global alignment of frames larger than the intersection: the intersection
\* is one pixel smaller than the frames and frame i lies at (dy[i], dx[i]).
OffsetAlignFrames(dy, dx) ==
    [intersection_shape |-> <<<<0, ImageSize - 1>>, <<0, ImageSize - 1>>>>,
     dy |-> dy, dx |-> dx]
First == <<0, 1>>
Rest == <<1, ImageSize - 1>>

\* Three frames of which the best two are stacked without de-warping, at
\* alignment points that leave pixels to the background: a whole row, the
\* first pixel, or the first and the last pixel of the image.
ThreeFrames ==
    <<PositionCodedFrame(0), PositionCodedFrame(5), PositionCodedFrame(7)>>
BackgroundLayouts ==
    {<<Box(Upper, Whole)>>,
     <<Box(Whole, Lower), Box(Lower, Whole)>>,
     <<Box(Upper, Lower), Box(Lower, Upper)>>}
BackgroundSetups ==
    {Setup(Configuration(1, FALSE, FALSE), ThreeFrames, 8, aps, 2,
           <<<<>>, Range(0, Len(aps)), Range(0, Len(aps))>>) :
        aps \in BackgroundLayouts}

\* Frames offset against the intersection: two frames de-warped at one
\* alignment point covering the intersection, and three frames of which the
\* best two are stacked without de-warping at alignment points that leave
\* pixels of the intersection to the background.
OffsetSetups ==
    {[Setup(Configuration(1, FALSE, TRUE), WarpedFrames, 8,
            <<Box(Upper, Upper)>>, 2, UsedByAll(2))
         EXCEPT !.align = OffsetAlignFrames(<<1, 0>>, <<0, 1>>)]}
    \cup {[Setup(Configuration(1, FALSE, FALSE), ThreeFrames, 8, aps, 2,
                 <<<<>>, Range(0, Len(aps)), Range(0, Len(aps))>>)
              EXCEPT !.align = OffsetAlignFrames(<<1, 0, 1>>, <<0, 1, 1>>)] :
            aps \in {<<Box(First, Upper)>>,
                     <<Box(Upper, Rest), Box(Rest, Upper)>>}}

\* One frame de-warped at one alignment point, with a search width of the
\* frame size: the shifted patch may lie anywhere relative to the frame.
FarSearch(conf) == [conf EXCEPT !.alignment_points_search_width = ImageSize]
FarShiftSetups ==
    {Setup(FarSearch(Configuration(1, FALSE, TRUE)), WarpedFrames, 8, aps, 1,
           <<<<>>, <<0>>>>) :
        aps \in SingleLayouts}

\* One frame drizzled by 2 and de-warped at one alignment point whose patch
\* ends inside the image at the upper and at the right side.
DrizzledSetups ==
    {Setup(Configuration(2, FALSE, TRUE), WarpedFrames, 8,
           <<Box(Lower, Upper)>>, 1, <<<<>>, <<0>>>>)}

ShiftedSetups ==
    BackgroundSetups \cup OffsetSetups \cup FarShiftSetups \cup DrizzledSetups

ShiftedInit ==
    \E setup \in ShiftedSetups :
        /\ RankFramesScored(setup.scores)
        /\ StackFramesConstructed(setup.conf, setup.frames, setup.align,
                                  setup.aps, setup.stack_size)
        /\ frame_order = Range(0, setup.frames.number)
        /\ cancellation_flag = FALSE

\* stack_frames and merge_alignment_point_buffers for frames offset against
\* the intersection, for shifts up to the frame size and for alignment
\* points that leave holes.
SpecStackShifted == ShiftedInit /\ [][StackNext]_vars

\* The caller sets its cancellation flag while stack_frames is in its loop
\* over all frames.
SetCancellationFlag ==
    /\ stack_pc = "stacking"
    /\ ~cancellation_flag
    /\ cancellation_flag' = TRUE
    /\ UNCHANGED <<rank_vars, stack_vars>>

\* Inputs for stacking with a caller that may cancel: two frames de-warped
\* at one alignment point used by both.
CancellableSetups == {setup \in WarpedSetups : setup.stack_size = 2}

CancellableInit ==
    \E setup \in CancellableSetups :
        /\ RankFramesScored(setup.scores)
        /\ StackFramesConstructed(setup.conf, setup.frames, setup.align,
                                  setup.aps, setup.stack_size)
        /\ frame_order = Range(0, setup.frames.number)
        /\ cancellation_flag = FALSE

CancellableNext ==
    \/ StackNext
    \/ SetCancellationFlag

\* stack_frames run by a caller that may set its cancellation flag.
SpecStackCancellable == CancellableInit /\ [][CancellableNext]_vars

\* -------------------------------------------------------- StackFrames claims
\* The stacking buffer of the a-th alignment point.
ApBuffer(a) == alignment_points.alignment_points[a].stacking_buffer
NumberAps == Len(alignment_points.alignment_points)

\* The positions of the workflow: from the frame loop on, and after it.
Stacking == stack_pc \in {"stacking", "stacked", "merged"}
LoopDone == stack_pc \in {"stacked", "merged"}

\* A step that evaluates one (frame, alignment point) pair, and one where the
\* shift was not found.
StepEvaluated == pairs_evaluated' = pairs_evaluated + 1
FailedStep == StepEvaluated /\ ~Val(last_shift').success

ArraySum(a, b) ==
    [y \in 1..Rows(a) |-> [x \in 1..Cols(a) |-> RAdd(a[y][x], b[y][x])]]
ArrayDifference(a, b) ==
    [y \in 1..Rows(a) |-> [x \in 1..Cols(a) |-> RSub(a[y][x], b[y][x])]]

\* C3 as stated: a pair evaluated with success = FALSE leaves the stacking
\* buffers unchanged and increments only shift_failure_counter, and after the
\* frame loop every alignment point buffer is the sum of the shifted patches
\* of the frames evaluated with success = TRUE.
C3_FailedShiftSkipped ==
    /\ [][FailedStep =>
            /\ alignment_points' = alignment_points
            /\ shift_distribution' = shift_distribution
            /\ Val(shift_failure_counter') = Val(shift_failure_counter) + 1]_vars
    /\ [](LoopDone =>
            \A a \in 1..NumberAps : ApBuffer(a) = Val(success_patch_sum)[a])

\* C3, amended: a pair evaluated with success = FALSE increments no bin of
\* the shift histogram, only shift_failure_counter, but the shifted patch of
\* the frame is still added to the alignment point's buffer; so every
\* alignment point buffer is the sum of the shifted patches of all frames
\* evaluated at it, found or not.
C3_FailedShiftStillStacked ==
    /\ [][FailedStep =>
            /\ shift_distribution' = shift_distribution
            /\ Val(shift_failure_counter') = Val(shift_failure_counter) + 1
            /\ Val(success_patch_sum') = Val(success_patch_sum)
            /\ \A a \in 1..NumberAps :
                   ApBuffer(a)' =
                       ArraySum(ApBuffer(a),
                                ArrayDifference(Val(failure_patch_sum')[a],
                                                Val(failure_patch_sum)[a]))]_vars
    /\ [](Stacking =>
            \A a \in 1..NumberAps :
                ApBuffer(a) = ArraySum(Val(success_patch_sum)[a],
                                       Val(failure_patch_sum)[a]))

\* A frame whose shift was not found has left a non-zero patch in a buffer.
C3_Witness ==
    /\ LoopDone
    /\ Val(shift_failure_counter) >= 1
    /\ \E a \in 1..NumberAps :
           /\ ApBuffer(a) # Val(success_patch_sum)[a]
           /\ \E y \in 1..Rows(ApBuffer(a)), x \in 1..Cols(ApBuffer(a)) :
                  RLess(RInt(0), Val(failure_patch_sum)[a][y][x])

\* The number of (frame, alignment point) pairs of the whole frame loop.
PairsToEvaluate ==
    ISum([i \in 1..frames.number |-> Len(frames.used_alignment_points[i])])

\* sum(self.shift_distribution) + self.shift_failure_counter
ShiftEntriesTotal == ISum(Val(shift_distribution)) + Val(shift_failure_counter)

\* C4: every evaluated pair increments exactly one of the histogram and the
\* failure counter, so their total is the number of pairs evaluated so far,
\* and after the frame loop the number of all (frame, alignment point) pairs.
C4_ShiftCountersTotal ==
    /\ [][StepEvaluated =>
            \/ /\ ISum(Val(shift_distribution')) = ISum(Val(shift_distribution)) + 1
               /\ shift_failure_counter' = shift_failure_counter
            \/ /\ shift_distribution' = shift_distribution
               /\ Val(shift_failure_counter') = Val(shift_failure_counter) + 1]_vars
    /\ [](Stacking => ShiftEntriesTotal = pairs_evaluated)
    /\ [](LoopDone => ShiftEntriesTotal = PairsToEvaluate)

\* The loop has ended with shifts found and shifts not found.
C4_Witness ==
    /\ LoopDone
    /\ pairs_evaluated >= 2
    /\ Val(shift_failure_counter) >= 1
    /\ ISum(Val(shift_distribution)) >= 1

\* One alignment point covering the frame, used by all frames, which are
\* all stacked; no drizzle, no holes, no global shift, and every local shift
\* found and zero (all pairs counted in bin 0 of the histogram).
RigidFullCover ==
    /\ configuration.drizzle_factor = 1
    /\ Val(number_stacking_holes) = 0
    /\ NumberAps = 1
    /\ alignment_points.alignment_points[1].patch_y_low = 0
    /\ alignment_points.alignment_points[1].patch_y_high = DimY
    /\ alignment_points.alignment_points[1].patch_x_low = 0
    /\ alignment_points.alignment_points[1].patch_x_high = DimX
    /\ alignment_points.stack_size = frames.number
    /\ \A i \in 1..frames.number :
           /\ frames.used_alignment_points[i] = <<0>>
           /\ align_frames.dy[i] = 0
           /\ align_frames.dx[i] = 0
    /\ Val(shift_failure_counter) = 0
    /\ Val(shift_distribution)[1] = PairsToEvaluate

\* The mean over the input frames of pixel (y, x), and a value of the input
\* range on the 16 bit scale of the output.
MeanOfFrames(y, x) ==
    Rat(ISum([i \in 1..frames.number |-> frames.data[i][y][x]]), frames.number)
OnOutputScale(value) ==
    LET scaled == RMul(value, Rat(65535, FullScale(frames.depth)))
    IN  RoundHalfEven(scaled[1], scaled[2])
OutputIsMeanOfFrames ==
    \A y \in 1..ImageSize, x \in 1..ImageSize :
        Val(stacked_image)[y][x] = OnOutputScale(MeanOfFrames(y, x))

\* C5 as stated: under the conditions of RigidFullCover the stacked image is,
\* at every pixel, the mean over the input frames (on the 16 bit scale).
C5_MeanOfFrames ==
    (stack_pc = "merged" /\ RigidFullCover) => OutputIsMeanOfFrames

\* C5, amended: the same with brightness normalization switched off; three
\* frames all-10, all-20 and all-30 give all-20 if they are 16 bit frames
\* and all-5140 if they are 8 bit frames.
C5_MeanOfFramesNotNormalized ==
    /\ (stack_pc = "merged" /\ RigidFullCover
            /\ ~configuration.frames_normalization) => OutputIsMeanOfFrames
    /\ (stack_pc = "merged" /\ frames.depth = 16
            /\ frames.data = <<ConstantFrame(10), ConstantFrame(20),
                               ConstantFrame(30)>>)
           => stacked_image = Some(ConstantFrame(20))
    /\ (stack_pc = "merged" /\ frames.depth = 8
            /\ frames.data = <<ConstantFrame(10), ConstantFrame(20),
                               ConstantFrame(30)>>)
           => stacked_image = Some(ConstantFrame(5140))

\* Scenario S1 has been stacked and merged.
C5_Witness ==
    /\ stack_pc = "merged"
    /\ RigidFullCover
    /\ ~configuration.frames_normalization
    /\ frames.depth = 16
    /\ frames.data = <<ConstantFrame(10), ConstantFrame(20), ConstantFrame(30)>>
    /\ stacked_image = Some(ConstantFrame(20))

\* The stacked value of pixel (y, x) under RigidFullCover: the mean of the
\* (brightness normalized) frames.
StackedValue(y, x) ==
    RDiv(RSum([i \in 1..frames.number |-> Frame(i - 1)[y][x]]),
         RInt(frames.number))

\* C6: every output value lies in 0..65535; for an 8 bit source a stacked
\* value v in 0..255 gives v * 257 (rounded if v is not an integer) and a
\* stacked value above 255 gives 65535; two 8 bit frames all-100 and all-200
\* give 38550 everywhere.
C6_BitDepthFinalize ==
    /\ stack_pc = "merged" =>
           \A y \in 1..Rows(Val(stacked_image)), x \in 1..Cols(Val(stacked_image)) :
               Val(stacked_image)[y][x] \in 0..65535
    /\ (stack_pc = "merged" /\ RigidFullCover /\ frames.depth = 8) =>
           \A y \in 1..ImageSize, x \in 1..ImageSize :
               LET v == StackedValue(y, x)
               IN  Val(stacked_image)[y][x] =
                       IF RLess(RInt(255), v) THEN 65535
                       ELSE IF v[2] = 1 THEN v[1] * 257
                       ELSE RoundHalfEven(v[1] * 257, v[2])
    /\ (stack_pc = "merged" /\ frames.depth = 8
            /\ frames.data = <<ConstantFrame(100), ConstantFrame(200)>>)
           => stacked_image = Some(ConstantFrame(38550))

\* An 8 bit stack with a pixel above full scale, saturated, and a pixel of
\* stacked value 50.
C6_Witness ==
    /\ stack_pc = "merged"
    /\ RigidFullCover
    /\ frames.depth = 8
    /\ RLess(RInt(255), StackedValue(1, 1))
    /\ Val(stacked_image)[1][1] = 65535
    /\ StackedValue(2, 2) = RInt(50)
    /\ Val(stacked_image)[2][2] = 50 * 257

\* Some drizzled pixel has a weight sum below 1e-10.
SomeHole ==
    \E y \in 1..DimYDrizzled, x \in 1..DimXDrizzled :
        BelowHoleThreshold(sum_single_frame_weights[y][x])

\* C7: from prepare_for_stack_blending on, there are stacking holes and a
\* background buffer exactly if some pixel has a weight sum below 1e-10;
\* otherwise number_stacking_holes is 0 and there is, and remains, neither a
\* background buffer nor a list of background patches.
C7_BackgroundIffHoles ==
    Stacking =>
        /\ (Val(number_stacking_holes) > 0 /\ averaged_background # None)
               <=> SomeHole
        /\ ~SomeHole =>
               /\ Val(number_stacking_holes) = 0
               /\ averaged_background = None
               /\ background_patches = None

\* Frames have been added to the background patches of a stack with holes.
C7_Witness ==
    /\ LoopDone
    /\ SomeHole
    /\ Val(number_stacking_holes) > 0
    /\ background_patches # None
    /\ Val(background_patches) # <<>>
    /\ \E y \in 1..Rows(Val(averaged_background)), x \in 1..Cols(Val(averaged_background)) :
           RLess(RInt(0), Val(averaged_background)[y][x])

\* C8: in every state from construction on, every weight sum is at least the
\* sentinel: it holds the sentinel and a sum of non-negative weights, and no
\* step takes anything away.
C8_WeightSumAtLeastSentinel ==
    /\ [](\A y \in 1..DimYDrizzled, x \in 1..DimXDrizzled :
              /\ sum_single_frame_weights[y][x].eps >= 1
              /\ RLeq(RInt(0), sum_single_frame_weights[y][x].std))
    /\ [][\A y \in 1..DimYDrizzled, x \in 1..DimXDrizzled :
              /\ sum_single_frame_weights'[y][x].eps
                     = sum_single_frame_weights[y][x].eps
              /\ RLeq(sum_single_frame_weights[y][x].std,
                      sum_single_frame_weights'[y][x].std)]_vars

\* A merged stack with a pixel no alignment point covers, whose weight sum
\* is the sentinel alone, and a covered pixel.
C8_Witness ==
    /\ stack_pc = "merged"
    /\ \E y \in 1..DimYDrizzled, x \in 1..DimXDrizzled :
           sum_single_frame_weights[y][x] = Weight(RInt(0), 1)
    /\ \E y \in 1..DimYDrizzled, x \in 1..DimXDrizzled :
           RLess(RInt(0), sum_single_frame_weights[y][x].std)

\* C19: at the end of stack_frames, for all global shifts and all local shifts
\* returned by the shift function, the border counters satisfy
\* border_y_low + border_y_high < H*D and border_x_low + border_x_high < W*D,
\* so the crop in merge_alignment_point_buffers never yields an empty image.
C19_BordersLeaveImage ==
    /\ LoopDone =>
           /\ Val(border_y_low) + Val(border_y_high) < DimYDrizzled
           /\ Val(border_x_low) + Val(border_x_high) < DimXDrizzled
    /\ stack_pc = "merged" =>
           /\ Rows(Val(stacked_image)) > 0
           /\ Cols(Val(stacked_image)) > 0

\* What does hold of the border counters: none exceeds the largest local
\* shift, search_width * D, so they leave a part of the image whenever twice
\* the search width is smaller than the image, and only then for all shifts.
C19_BordersWithinSearchWidth ==
    LoopDone =>
        LET width == configuration.alignment_points_search_width
                     * configuration.drizzle_factor
        IN  /\ Val(border_y_low) <= width /\ Val(border_y_high) <= width
            /\ Val(border_x_low) <= width /\ Val(border_x_high) <= width
            /\ 2 * width < Min(DimYDrizzled, DimXDrizzled) =>
                   /\ Val(border_y_low) + Val(border_y_high) < DimYDrizzled
                   /\ Val(border_x_low) + Val(border_x_high) < DimXDrizzled
                   /\ stack_pc = "merged" =>
                          /\ Rows(Val(stacked_image)) > 0
                          /\ Cols(Val(stacked_image)) > 0

\* The loop over all frames has ended.
LoopFinished == stack_pc = "stacking" /\ Val(frame_index) = frames.number

\* What compute_shift_alignment_point returned for frame f at alignment point a.
Logged(f, a) ==
    \E e \in shift_log : e.frame_index = f /\ e.alignment_point_index = a
LoggedResult(f, a) ==
    (CHOOSE e \in shift_log :
        e.frame_index = f /\ e.alignment_point_index = a).result

\* The accumulators [buffers, borders, distribution, failures] after the pass
\* of the alignment point loop for frame f and alignment point a.
StackedOneMore(acc, f, a) ==
    LET alignment_point == At(alignment_points.alignment_points, a)
        D == configuration.drizzle_factor
        result == LoggedResult(f, a)
        shift_y_drizzled == ShiftDrizzled(result[1], D)
        shift_x_drizzled == ShiftDrizzled(result[2], D)
    IN  CHOOSE next \in
            {LET remapped ==
                     RemapRigid(FrameDrizzled(f), acc.buffers[a + 1],
                                At(align_frames.dy, f) * D - shift_y_drizzled,
                                At(align_frames.dx, f) * D - shift_x_drizzled,
                                alignment_point.patch_y_low_drizzled,
                                alignment_point.patch_y_high_drizzled,
                                alignment_point.patch_x_low_drizzled,
                                alignment_point.patch_x_high_drizzled,
                                acc.borders)
             IN  [buffers |-> [acc.buffers EXCEPT ![a + 1] = remapped.buffer],
                  borders |-> remapped.borders,
                  distribution |->
                      CountShift(acc.distribution, shift_y_drizzled,
                                 shift_x_drizzled, result[3]),
                  failures |-> CountFailure(acc.failures, result[3])]} : TRUE

\* The accumulators after the logged (frame, alignment point) pairs from
\* (f, a) on are stacked in the order of stack_frames: frames ascending, and
\* within a frame alignment points ascending.
RECURSIVE StackedInCodeOrder(_, _, _)
StackedInCodeOrder(acc, f, a) ==
    IF f >= frames.number THEN acc
    ELSE IF a >= NumberAps THEN StackedInCodeOrder(acc, f + 1, 0)
    ELSE StackedInCodeOrder(IF Logged(f, a) THEN StackedOneMore(acc, f, a)
                            ELSE acc, f, a + 1)

\* The accumulators stack_frames starts its loops with.
StackedNothing ==
    [buffers |-> [a \in 1..NumberAps |->
                     Full(Rows(ApBuffer(a)), Cols(ApBuffer(a)), RInt(0))],
     borders |-> <<0, 0, 0, 0>>,
     distribution |-> [j \in 1..Len(Val(shift_distribution)) |-> 0],
     failures |-> 0]

\* The background accumulator after the frames from f on are added in
\* ascending order.
RECURSIVE BackgroundInCodeOrder(_, _)
BackgroundInCodeOrder(background, f) ==
    IF f >= frames.number THEN background
    ELSE IF ~FrameAddsBackground(f) THEN BackgroundInCodeOrder(background, f + 1)
    ELSE BackgroundInCodeOrder(
             (IF background_patches # None /\ Val(background_patches) # <<>>
              THEN AddBackgroundPatches(background, Val(background_patches), 1,
                                        Frame(f), At(align_frames.dy, f),
                                        At(align_frames.dx, f))
              ELSE AddFullBackground(background, Frame(f),
                                     At(align_frames.dy, f),
                                     At(align_frames.dx, f))).array,
             f + 1)

C20_BackgroundReordered ==
    /\ LoopFinished
    /\ frame_order = <<2, 1, 0>>
    /\ Val(number_stacking_holes) > 0
    /\ \E y \in 1..DimY, x \in 1..DimX :
           RLess(RInt(0), Val(averaged_background)[y][x])


\* C21: once the cancellation flag is set during stack_frames, the engine
\* returns early: no further (frame, alignment point) pair is evaluated.
C21_CancellationStopsStacking ==
    [][cancellation_flag => ~StepEvaluated]_vars


\* The pixels of the H x W image: 0-based <<y, x>>, and those inside a
\* background patch.
ImagePixels == (0..(DimY - 1)) \X (0..(DimX - 1))
TilePixels(t) ==
    (t.patch_y_low..(t.patch_y_high - 1)) \X (t.patch_x_low..(t.patch_x_high - 1))

\* The drizzled pixels, and those of the drizzled projection of a background
\* patch.
DrizzledPixels == (0..(DimYDrizzled - 1)) \X (0..(DimXDrizzled - 1))
TileProjection(t) ==
    LET D == configuration.drizzle_factor
    IN  ((t.patch_y_low * D)..(t.patch_y_high * D - 1))
            \X ((t.patch_x_low * D)..(t.patch_x_high * D - 1))

\* The drizzled pixels where the background is blended in:
\* weight_sum < blend_threshold * stack_size.
BackgroundUsedAt(c) ==
    BelowThreshold(sum_single_frame_weights[c[1] + 1][c[2] + 1], BlendThreshold)

\* prepare_for_stack_blending has taken the path that plans the background
\* patch by patch.
PerTilePath == stack_pc # "constructed" /\ background_patches # None

\* C22: on the per-tile path the candidate background tiles are pairwise
\* non-overlapping rectangles of side at most the patch size whose union is
\* the whole H x W image, and the tile list keeps exactly the candidates with
\* a pixel below the blend threshold in their drizzled projection.
C22_TilesCoverImage ==
    PerTilePath =>
        LET tiles == CandidateBackgroundPatches
            size == configuration.stack_frames_background_patch_size
        IN  /\ \A j, k \in 1..Len(tiles) :
                   j # k => TilePixels(tiles[j]) \cap TilePixels(tiles[k]) = {}
            /\ \A j \in 1..Len(tiles) :
                   /\ tiles[j].patch_y_high - tiles[j].patch_y_low \in 1..size
                   /\ tiles[j].patch_x_high - tiles[j].patch_x_low \in 1..size
            /\ UNION {TilePixels(tiles[j]) : j \in 1..Len(tiles)} = ImagePixels
            /\ Val(background_patches) =
                   SelectSeq(tiles,
                             LAMBDA t : \E c \in TileProjection(t) :
                                            BackgroundUsedAt(c))

\* C28: when the background is accumulated per tile, every drizzled pixel
\* below the blend threshold lies in the drizzled projection of a tile of the
\* list, the pixels of the last row and the last column included.
C28_BlendedPixelsInTiles ==
    (PerTilePath /\ Val(background_patches) # <<>>) =>
        \A c \in DrizzledPixels :
            BackgroundUsedAt(c) =>
                \E j \in 1..Len(Val(background_patches)) :
                    c \in TileProjection(Val(background_patches)[j])


\* The total shift stack_frames passes to remap_rigid for a logged
\* evaluation: <<total_shift_y_drizzled, total_shift_x_drizzled>>.
LoggedTotalShift(e) ==
    LET D == configuration.drizzle_factor
    IN  <<At(align_frames.dy, e.frame_index) * D - ShiftDrizzled(e.result[1], D),
          At(align_frames.dx, e.frame_index) * D - ShiftDrizzled(e.result[2], D)>>

\* The shape of the drizzled frames.
FrameRowsDrizzled == Rows(frames.data[1]) * configuration.drizzle_factor
FrameColsDrizzled == Cols(frames.data[1]) * configuration.drizzle_factor

\* Whether the frame of a logged evaluation has a pixel for buffer cell
\* (by, bx) of the alignment point: the shifted position lies in the frame.
FrameReaches(e, by, bx) ==
    LET ap == At(alignment_points.alignment_points, e.alignment_point_index)
        y == ap.patch_y_low_drizzled + LoggedTotalShift(e)[1] + by
        x == ap.patch_x_low_drizzled + LoggedTotalShift(e)[2] + bx
    IN  /\ 0 <= y /\ y < FrameRowsDrizzled
        /\ 0 <= x /\ x < FrameColsDrizzled

\* The drizzled pixels that remain after trimming by the border counters.
InTrimmedImage(y, x) ==
    /\ Val(border_y_low) <= y /\ y < DimYDrizzled - Val(border_y_high)
    /\ Val(border_x_low) <= x /\ x < DimXDrizzled - Val(border_x_high)

\* C23: after merge_alignment_point_buffers has trimmed the image, every
\* pixel of the trimmed image inside the patch of an alignment point has in
\* that alignment point's buffer a contribution of every frame stacked into
\* it, wherever the patch lies.
C23_TrimmedImageComplete ==
    stack_pc = "merged" =>
        \A e \in shift_log :
            LET ap == At(alignment_points.alignment_points,
                         e.alignment_point_index)
            IN  \A by \in 0..(Rows(ap.stacking_buffer) - 1),
                   bx \in 0..(Cols(ap.stacking_buffer) - 1) :
                    InTrimmedImage(ap.patch_y_low_drizzled + by,
                                   ap.patch_x_low_drizzled + bx)
                        => FrameReaches(e, by, bx)


\* The rows and columns by which the shifted source rectangle of a logged
\* evaluation extends beyond the frame:
\* <<above row 0, below the last row, left of column 0, right of the last>>.
Overhang(e) ==
    LET ap == At(alignment_points.alignment_points, e.alignment_point_index)
        t == LoggedTotalShift(e)
    IN  <<Max(0, -(ap.patch_y_low_drizzled + t[1])),
          Max(0, ap.patch_y_high_drizzled + t[1] - FrameRowsDrizzled),
          Max(0, -(ap.patch_x_low_drizzled + t[2])),
          Max(0, ap.patch_x_high_drizzled + t[2] - FrameColsDrizzled)>>

\* The largest overhang on a side over all remap_rigid calls so far, 0 if
\* there was none.
Largest(S) == CHOOSE m \in S : \A v \in S : v <= m
MaxOverhang(side) == Largest({0} \cup {Overhang(e)[side] : e \in shift_log})

Borders ==
    <<Val(border_y_low), Val(border_y_high), Val(border_x_low),
      Val(border_x_high)>>

\* C24: the four border counters are 0 when the frame loop starts, never
\* decrease, and each equals the largest number of rows or columns by which
\* the shifted source rectangle of a remap_rigid call so far extended beyond
\* the frame on its side.
C24_BordersAreMaxClip ==
    /\ [](border_y_low # None =>
             \A side \in 1..4 : Borders[side] = MaxOverhang(side))
    /\ [][border_y_low # None =>
             \A side \in 1..4 : Borders'[side] >= Borders[side]]_vars

\* A second call clipped at other sides than the first, which was clipped by
\* two rows at the high side.
C24_Witness ==
    /\ stack_pc = "stacking"
    /\ Cardinality(shift_log) = 2
    /\ Borders = <<1, 2, 1, 0>>
    /\ Val(last_shift).shift_y_drizzled = 1


\* The evaluation the last alignment point step has logged.
LastEvaluation ==
    CHOOSE e \in shift_log' \ shift_log : TRUE

\* C25: a remap_rigid call adds to every buffer cell (by, bx) the frame value
\* at (y_low + shift_y + by, x_low + shift_x + bx) if that position lies in
\* the frame and leaves the cell unchanged otherwise; the frame is not
\* modified.
C25_RemapAddsShiftedPatch ==
    [][StepEvaluated =>
          \E e \in {LastEvaluation} :
          \E frame \in {FrameDrizzled(e.frame_index)} :
              LET a == e.alignment_point_index + 1
                  ap == alignment_points.alignment_points[a]
                  t == LoggedTotalShift(e)
              IN  /\ \A by \in 0..(Rows(ApBuffer(a)) - 1),
                        bx \in 0..(Cols(ApBuffer(a)) - 1) :
                         ApBuffer(a)'[by + 1][bx + 1] =
                             IF FrameReaches(e, by, bx)
                             THEN RAdd(ApBuffer(a)[by + 1][bx + 1],
                                       At(At(frame,
                                             ap.patch_y_low_drizzled + t[1] + by),
                                          ap.patch_x_low_drizzled + t[2] + bx))
                             ELSE ApBuffer(a)[by + 1][bx + 1]
                  /\ frames' = frames]_vars

\* The second frame, offset by one column against the intersection, is added
\* to a buffer that holds the first frame, with the patch shifted one row
\* above the frame: the first buffer row holds the first frame only.
C25_Witness ==
    /\ stack_pc = "stacking"
    /\ Cardinality(shift_log) = 2
    /\ align_frames.dx = <<0, 1>>
    /\ Val(last_shift).frame_index = 1
    /\ Val(last_shift).shift_y_drizzled = 1
    /\ Val(last_shift).shift_x_drizzled = 0
    /\ Val(border_y_low) = 1
    /\ \E e \in shift_log : e.frame_index = 0 /\ e.result[1] = RInt(0)
                            /\ e.result[2] = RInt(0)
    /\ ApBuffer(1)[1][1] = RInt(40)
    /\ ApBuffer(1)[2][1] = RInt(70 + 25)

\* The index range remap_rigid computes along one direction is a range of
\* the frame and of the buffer.
RangeValid(b, frame_size, buffer_size) ==
    /\ 0 <= b.low_source /\ b.low_source <= b.high_source
    /\ b.high_source <= frame_size
    /\ 0 <= b.low_target /\ b.low_target <= b.high_target
    /\ b.high_target <= buffer_size
    /\ b.high_target - b.low_target = b.high_source - b.low_source

\* C29: for every total shift remap_rigid computes source and target index
\* ranges that are non-negative, inside the frame and the buffer and of equal
\* extents, and its add does not fail.
C29_RemapRangesValid ==
    /\ stack_pc # "ValueError"
    /\ \A e \in shift_log :
           LET ap == At(alignment_points.alignment_points,
                        e.alignment_point_index)
               t == LoggedTotalShift(e)
           IN  /\ RangeValid(RemapBounds(ap.patch_y_low_drizzled,
                                         ap.patch_y_high_drizzled, t[1],
                                         FrameRowsDrizzled, 0, 0),
                             FrameRowsDrizzled, Rows(ap.stacking_buffer))
               /\ RangeValid(RemapBounds(ap.patch_x_low_drizzled,
                                         ap.patch_x_high_drizzled, t[2],
                                         FrameColsDrizzled, 0, 0),
                             FrameColsDrizzled, Cols(ap.stacking_buffer))


\* The one-dimensional weights of an alignment point along y and along x, as
\* prepare_for_stack_blending calls one_dim_weight for them:
\* [lo, hi, c, extend_low, extend_high, weights].
OneDimWeightCalls(ap) ==
    {[lo |-> ap.patch_y_low_drizzled, hi |-> ap.patch_y_high_drizzled,
      c |-> ap.y_drizzled, extend_low |-> ap.patch_y_low_drizzled = 0,
      extend_high |-> ap.patch_y_high_drizzled = DimYDrizzled,
      weights |-> OneDimWeight(ap.patch_y_low_drizzled,
                               ap.patch_y_high_drizzled, ap.y_drizzled,
                               ap.patch_y_low_drizzled = 0,
                               ap.patch_y_high_drizzled = DimYDrizzled)],
     [lo |-> ap.patch_x_low_drizzled, hi |-> ap.patch_x_high_drizzled,
      c |-> ap.x_drizzled, extend_low |-> ap.patch_x_low_drizzled = 0,
      extend_high |-> ap.patch_x_high_drizzled = DimXDrizzled,
      weights |-> OneDimWeight(ap.patch_x_low_drizzled,
                               ap.patch_x_high_drizzled, ap.x_drizzled,
                               ap.patch_x_low_drizzled = 0,
                               ap.patch_x_high_drizzled = DimXDrizzled)]}

\* The one_dim_weight calls of the alignment points that have their weights.
WeightCalls ==
    UNION {OneDimWeightCalls(alignment_points.alignment_points[a]) :
              a \in {b \in 1..NumberAps :
                        alignment_points.alignment_points[b].weights_yx # None}}

\* C26: for a centre c strictly inside [lo, hi) one_dim_weight returns hi - lo
\* weights in (0, 1] that are 1 at index c - lo, do not decrease up to that
\* index and do not increase after it, and are all 1 on a side that is
\* extended.
C26_OneDimWeightShape ==
    \A call \in WeightCalls :
        (call.lo < call.c /\ call.c < call.hi) =>
            LET w == call.weights
                centre == call.c - call.lo
            IN  /\ Len(w) = call.hi - call.lo
                /\ At(w, centre) = RInt(1)
                /\ \A j \in 1..Len(w) :
                       RLess(RInt(0), w[j]) /\ RLeq(w[j], RInt(1))
                /\ \A j \in 0..(centre - 1) : RLeq(At(w, j), At(w, j + 1))
                /\ \A j \in centre..(Len(w) - 2) : RLeq(At(w, j + 1), At(w, j))
                /\ call.extend_low =>
                       \A j \in 0..(centre - 1) : At(w, j) = RInt(1)
                /\ call.extend_high =>
                       \A j \in centre..(Len(w) - 1) : At(w, j) = RInt(1)

\* An alignment point whose patch ends inside the image at the low side in
\* one direction and at the high side in the other: its weights rise to the
\* centre in the one and fall after it in the other.
C26_Witness ==
    \E rising \in WeightCalls, falling \in WeightCalls :
        /\ rising.lo < rising.c /\ rising.c < rising.hi
        /\ ~rising.extend_low /\ rising.extend_high
        /\ RLess(At(rising.weights, 0), At(rising.weights, 1))
        /\ falling.lo < falling.c /\ falling.c < falling.hi
        /\ falling.extend_low /\ ~falling.extend_high
        /\ RLess(At(falling.weights, Len(falling.weights) - 1),
                 At(falling.weights, Len(falling.weights) - 2))


\* The first stack_size entries of the active quality_sorted_indices.
BestFrameList ==
    SubSeq(Val(quality_sorted_indices), 1,
           Min(alignment_points.stack_size, Len(Val(quality_sorted_indices))))

\* The sum over the best frames, from the j-th entry of the list down, of
\* the frame pixel that the global shift (dy, dx) of the frame maps to pixel
\* (y, x) of the image.
RECURSIVE BestFramesSum(_, _, _)
BestFramesSum(j, y, x) ==
    IF j = 0 THEN RInt(0)
    ELSE RAdd(BestFramesSum(j - 1, y, x),
              At(At(Frame(BestFrameList[j]),
                    y + At(align_frames.dy, BestFrameList[j])),
                 x + At(align_frames.dx, BestFrameList[j])))

\* Whether the background is accumulated at pixel (y, x) of the image: in a
\* tile of the list if there is one, everywhere otherwise.
BackgroundAccumulatedAt(y, x) ==
    IF background_patches # None /\ Val(background_patches) # <<>>
    THEN \E j \in 1..Len(Val(background_patches)) :
             <<y, x>> \in TilePixels(Val(background_patches)[j])
    ELSE TRUE

\* C27: with holes, a frame is added to the background iff it is among the
\* first stack_size entries of the active quality_sorted_indices, shifted by
\* its global shift only; for stack_size <= N these are stack_size frames,
\* and after the division the background is their mean (extended to the
\* drizzled size), wherever it is accumulated.
C27_BackgroundIsMeanOfBest ==
    (LoopDone /\ Val(number_stacking_holes) > 0
        /\ alignment_points.stack_size <= frames.number) =>
        /\ Cardinality({BestFrameList[j] : j \in 1..Len(BestFrameList)})
               = alignment_points.stack_size
        /\ \A sum \in {[y \in 1..DimY |-> [x \in 1..DimX |->
                          IF BackgroundAccumulatedAt(y - 1, x - 1)
                          THEN BestFramesSum(Len(BestFrameList), y - 1, x - 1)
                          ELSE RInt(0)]]} :
               Val(averaged_background) =
                   [y \in 1..DimYDrizzled |-> [x \in 1..DimXDrizzled |->
                       RDiv((IF configuration.drizzle_factor # 1
                             THEN Resize(sum, configuration.drizzle_factor,
                                         "INTER_CUBIC")
                             ELSE sum)[y][x],
                            RInt(alignment_points.stack_size))]]

\* The best two of three frames, offset by (0, 1) and (1, 1) against the
\* intersection, are averaged in the one tile of the list.
C27_Witness ==
    /\ stack_pc = "stacked"
    /\ frames.number = 3
    /\ alignment_points.stack_size = 2
    /\ align_frames.dy = <<1, 0, 1>>
    /\ align_frames.dx = <<0, 1, 1>>
    /\ background_patches # None
    /\ Len(Val(background_patches)) = 1
    /\ Val(averaged_background)[1][1] = Rat(25 + 57, 2)


\* The drizzled pixels inside the drizzled patch rectangle of an alignment
\* point.
PatchPixels(ap) ==
    (ap.patch_y_low_drizzled..(ap.patch_y_high_drizzled - 1))
        \X (ap.patch_x_low_drizzled..(ap.patch_x_high_drizzled - 1))

\* C30: with stack_size >= 1, number_stacking_holes is the number of drizzled
\* pixels that lie in the drizzled patch rectangle of no alignment point.
C30_HolesAreUncoveredPixels ==
    (number_stacking_holes # None /\ alignment_points.stack_size >= 1) =>
        Val(number_stacking_holes) =
            Cardinality(DrizzledPixels
                \ UNION {PatchPixels(alignment_points.alignment_points[a]) :
                            a \in 1..NumberAps})

\* Two overlapping patches that leave one pixel uncovered, with weights
\* below 1 on covered pixels.
C30_Witness ==
    /\ number_stacking_holes = Some(1)
    /\ NumberAps = 2
    /\ alignment_points.stack_size = 1
    /\ \E c \in DrizzledPixels :
           /\ RLess(RInt(0), sum_single_frame_weights[c[1] + 1][c[2] + 1].std)
           /\ RLess(sum_single_frame_weights[c[1] + 1][c[2] + 1].std, RInt(1))

====
